---- MODULE Spec2Model ----
(***************************************************************************)
(* A model of the demonstration scripts of sample-resilient-llm-inference: *)
(* the concurrent probe batch (dispatch, mutex-guarded result collection,  *)
(* join, statistics), the classification of a failed call, and the         *)
(* CloudWatch log reconciliation poller of demo_cris.py and                *)
(* demo_account_sharding.py.                                               *)
(*                                                                         *)
(* Abstractions: strings that are searched for substrings are sequences of *)
(* tokens; latencies are integers (hundredths of a second, the code rounds *)
(* to two decimals); rates and means are exact fractions <<num, den>> in   *)
(* lowest terms (the code's float rounding is not modelled).               *)
(***************************************************************************)
EXTENDS Integers, Sequences, FiniteSets, TLC

VARIABLES
    \* ---- one failed call (send_bedrock_request's except branch)
    send_script, send_outcome, sent, send_log,
    \* ---- one batch
    script, num_requests, distribution_strategy, consumer_id,
    main_pc, submitted, joined,
    wstate, outcome, calls, wresult,
    results, results_lock, report,
    \* ---- the log reconciliation poller
    poll_script, expected_count, primary_expected_count, secondary_expected_count,
    poll_pc, attempt, cloudwatch_results, all_cloudwatch_results, pending,
    queries, best, slept, shown,
    \* ---- the account of one request (the sharding worker's choice)
    assign_n, assign_strategy, assign_index, assign_account,
    \* ---- the occupancy of the worker pool of one batch
    pool_script, pool_n, pool_submitted, pool_active, pool_done,
    \* ---- a script's start: flags, credential verification, exit or dispatch
    cli_script, cli_requests, cli_loop, cli_interval, cli_pc, primary_account, secondary_account, exit_status, printed, dispatched,
    \* ---- one log query step by step, and what the analysis returns
    q_pc, q_label, q_elapsed, q_status, q_fetched, q_cause, stats_failed, stats, returned,
    \* ---- loop mode: the runs, the inter-run wait and the shutdown flag
    loop_script, loop_pc, interval_seconds, shutdown_requested, run_count, total_stats, ticks_left, final_printed, sig_pc, sig_runs, sig_sleeps,
    \* ---- one statistics or report computation on drawn inputs
    stat_kind, stat_results, stat_totals, stat_snapshot, stat_out, stat_pc,
    \* ---- one configuration value and what the script makes of it
    cfg_script, cfg_key, cfg_section, cfg_value, cfg_pc, cfg_loads, cfg_result,
    \* ---- one parse of query results
    parse_response, parse_account, parse_out, parse_pc,
    \* ---- the wait-for-completion loop of one query
    wait_pc, wait_elapsed, wait_polls, wait_status, wait_result,
    \* ---- the shared tallies of the thread-per-question demos
    tally_script, tally_n, t_pc, t_out, t_tmp, t_lock, t_counts, t_results, t_events, t_report

sendVars  == <<send_script, send_outcome, sent, send_log>>
batchVars == <<script, num_requests, distribution_strategy, consumer_id,
               main_pc, submitted, joined, wstate, outcome, calls, wresult,
               results, results_lock, report>>
pollVars  == <<poll_script, expected_count, primary_expected_count,
               secondary_expected_count,
               poll_pc, attempt, cloudwatch_results, all_cloudwatch_results,
               pending, queries, best, slept, shown>>
assignVars == <<assign_n, assign_strategy, assign_index, assign_account>>
poolVars == <<pool_script, pool_n, pool_submitted, pool_active, pool_done>>
cliVars == <<cli_script, cli_requests, cli_loop, cli_interval, cli_pc, primary_account, secondary_account, exit_status, printed, dispatched>>
queryVars == <<q_pc, q_label, q_elapsed, q_status, q_fetched, q_cause, stats_failed, stats, returned>>
loopVars == <<loop_script, loop_pc, interval_seconds, shutdown_requested, run_count, total_stats, ticks_left, final_printed, sig_pc, sig_runs, sig_sleeps>>
statVars == <<stat_kind, stat_results, stat_totals, stat_snapshot, stat_out, stat_pc>>
configVars == <<cfg_script, cfg_key, cfg_section, cfg_value, cfg_pc, cfg_loads, cfg_result>>
parseVars == <<parse_response, parse_account, parse_out, parse_pc>>
waitVars == <<wait_pc, wait_elapsed, wait_polls, wait_status, wait_result>>
tallyVars == <<tally_script, tally_n, t_pc, t_out, t_tmp, t_lock, t_counts, t_results, t_events, t_report>>
moreVars == <<assignVars, poolVars, cliVars, queryVars, loopVars, statVars, configVars, parseVars, waitVars, tallyVars>>
notAssignVars == <<poolVars, cliVars, queryVars, loopVars, statVars, configVars, parseVars, waitVars, tallyVars>>
notPoolVars == <<assignVars, cliVars, queryVars, loopVars, statVars, configVars, parseVars, waitVars, tallyVars>>
notCliVars == <<assignVars, poolVars, queryVars, loopVars, statVars, configVars, parseVars, waitVars, tallyVars>>
notQueryVars == <<assignVars, poolVars, cliVars, loopVars, statVars, configVars, parseVars, waitVars, tallyVars>>
notLoopVars == <<assignVars, poolVars, cliVars, queryVars, statVars, configVars, parseVars, waitVars, tallyVars>>
notStatVars == <<assignVars, poolVars, cliVars, queryVars, loopVars, configVars, parseVars, waitVars, tallyVars>>
notConfigVars == <<assignVars, poolVars, cliVars, queryVars, loopVars, statVars, parseVars, waitVars, tallyVars>>
notParseVars == <<assignVars, poolVars, cliVars, queryVars, loopVars, statVars, configVars, waitVars, tallyVars>>
notWaitVars == <<assignVars, poolVars, cliVars, queryVars, loopVars, statVars, configVars, parseVars, tallyVars>>
notTallyVars == <<assignVars, poolVars, cliVars, queryVars, loopVars, statVars, configVars, parseVars, waitVars>>
vars == <<sendVars, batchVars, pollVars, moreVars>>

(***************************************************************************)
(* Bounds of the model.                                                    *)
(***************************************************************************)
\* largest batch size explored (the scripts accept 1..100, or fix 5 or 10)
MaxN == 3
\* longest error message, in tokens
MaxMsgLen == 2
\* most result rows of one log query answer
MaxPollRows == 1
\* largest number of client-observed successes handed to the poller
MaxSucc == 2
\* most Running answers of the status poll before its final answer
MaxRunning == 1
\* largest batch size whose account assignment is explored
MaxAssignN == 20
\* largest batch size whose pool occupancy is explored
MaxPoolN == 22
\* largest number of failed calls in the statistics handed to the poller
MaxFailed == 1
\* largest number of demo runs of a loop that is explored
MaxRuns == 2
\* largest number of result rows of a response that is parsed on its own
MaxParseRows == 2
\* largest number of seconds one describe_queries call takes
MaxCallLatency == 1
\* the number of failed requests of a consumer, or of the batch of
\* demo_load_balancing.py, in a run of the loop where some of its requests fail
MaxRunFailed == 2
\* largest number of worker threads whose tally updates are interleaved
MaxTallyWorkers == 3
\* largest number of successful, and of failed, requests of one demo run
MaxRunCalls == 1

(***************************************************************************)
(* Program constants.                                                      *)
(***************************************************************************)
\* min(num_requests, 20): the worker ceiling of the account-sharding pool
WorkerCeiling == 20
\* len(questions) of the two thread-per-request demos
NumQuestions == 10
\* the requests each consumer of demo_quota_isolation.py sends in a run
ConsumerRequests == 5
\* CLI bound on --requests
MaxRequests == 100
\* if args.interval < 5
MinInterval == 5
\* max_attempts of the polling loop
MaxAttempts == 5
\* the waits before the first and before every later attempt, in seconds
FirstWait == 60
LaterWait == 30
\* wait_for_query_completion: timeout_seconds and the sleep between polls
QueryTimeout == 60
StatusPollSleep == 2

(***************************************************************************)
(* General helpers.                                                        *)
(***************************************************************************)
Min(a, b) == IF a < b THEN a ELSE b

RECURSIVE GCD(_, _)
GCD(a, b) == IF b = 0 THEN a ELSE GCD(b, a % b)

\* the exact value n/d (d > 0) in lowest terms
Frac(n, d) == LET g == GCD(n, d) IN <<n \div g, d \div g>>

Zero == <<0, 1>>

\* what Python's  n / d  raises when d is 0
ZeroDivisionError == <<1, 0>>

\* Python's  n / d
Div(n, d) == IF d = 0 THEN ZeroDivisionError ELSE Frac(n, d)

\* Python's  tok in msg  on a message made of tokens
Contains(msg, tok) == \E k \in DOMAIN msg : msg[k] = tok

\* len([r for r in seq if Test(r)])
Count(seq, Test(_)) == Len(SelectSeq(seq, Test))

RECURSIVE SumTimes(_)
\* sum(r["response_time"] for r in seq)
SumTimes(seq) ==
    IF seq = <<>> THEN 0 ELSE Head(seq).response_time + SumTimes(Tail(seq))

SeqsUpTo(S, n) == UNION {[1..k -> S] : k \in 0..n}

(***************************************************************************)
(* What the external service does with one call.  stage says how far the   *)
(* try block got: "client" raised while building the session or client     *)
(* (before any outbound call), "call" the outbound call raised, "parse"    *)
(* the call returned but reading the response raised, "ok" no exception.   *)
(* exc is the exception class, msg is str(e) as tokens.                    *)
(***************************************************************************)
Tokens == {"ThrottlingException", "ServiceQuota", "ValidationException",
           "AccessDenied", "ResourceNotFound", "ProfileNotFound", "timeout"}

Messages == SeqsUpTo(Tokens, MaxMsgLen)

Latencies == {100, 300}

NoMsg == <<>>

OkOutcome(latency, model) ==
    [stage |-> "ok", latency |-> latency, model |-> model,
     exc |-> "none", msg |-> NoMsg]

RaiseOutcome(stage, exc, msg) ==
    [stage |-> stage, latency |-> 0, model |-> "none", exc |-> exc, msg |-> msg]

\* an outbound inference call was issued
CallIssued(o) == o.stage \in {"call", "parse", "ok"}

(***************************************************************************)
(* Result records.  Every script's dict is padded to the same fields;      *)
(* "absent" marks a key the script's dict does not have, NoError is None.  *)
(***************************************************************************)
NoError == <<"None">>

ResultRecord(request_id, success, account_type, cid, model_used, response_time, error) ==
    [request_id |-> request_id, success |-> success,
     account_type |-> account_type, consumer_id |-> cid,
     model_used |-> model_used, response_time |-> response_time,
     error |-> error, is_fallback |-> FALSE]

NoResult == ResultRecord(0, FALSE, "absent", "absent", "none", 0, NoError)

\* mutant: the "ServiceQuota" test is dropped
BedrockErrorType_NoQuota(error_msg) ==
    IF Contains(error_msg, "ThrottlingException") THEN "ThrottlingException"
    ELSE "Error"

\* demo_cris.py / demo_account_sharding.py: error_type of the except branch
BedrockErrorType(error_msg) ==
    IF Contains(error_msg, "ThrottlingException") \/ Contains(error_msg, "ServiceQuota")
    THEN "ThrottlingException"
    ELSE "Error"

\* demo_cris.py: the text of the progress line of a non-throttled failure
SanitizedError(error_msg) ==
    IF Contains(error_msg, "ValidationException") THEN "Validation Error"
    ELSE IF Contains(error_msg, "AccessDenied") THEN "Access Denied"
    ELSE IF Contains(error_msg, "ResourceNotFound") THEN "Resource Not Found"
    ELSE "API Error"

\* the progress line a bedrock call logs
BedrockLogLine(scr, o) ==
    IF o.stage = "ok" THEN "SUCCESS"
    ELSE IF BedrockErrorType(o.msg) = "ThrottlingException" THEN "THROTTLED"
    ELSE IF scr = "cris" THEN SanitizedError(o.msg)
    ELSE "ERROR"

\* send_bedrock_request of demo_cris.py (account_type "absent") and of
\* demo_account_sharding.py: the dict it returns for outcome o
send_bedrock_request(request_id, model_id, account_type, o) ==
    IF o.stage = "ok"
    THEN ResultRecord(request_id, TRUE, account_type, "absent", model_id,
                      o.latency, NoError)
    ELSE ResultRecord(request_id, FALSE, account_type, "absent", "None",
                      0, <<BedrockErrorType(o.msg)>>)

ModelId == "us.anthropic.claude-sonnet-4"

(***************************************************************************)
(* SpecSend: one call of send_bedrock_request on every outcome.            *)
(***************************************************************************)
SendOutcomes ==
    {OkOutcome(l, ModelId) : l \in Latencies}
    \cup {RaiseOutcome(st, "ClientError", m) :
            st \in {"client", "call", "parse"}, m \in Messages}


\* mutant: only the exception of the outbound call is caught (the try block
\* starts after the client is built)
Caught_CallOnly(scr, o) == o.stage # "client"

\* the  except Exception as e:  clause of the send functions and of the
\* fallback worker: the exception of outcome o does not leave the function
Caught(scr, o) == TRUE

(***************************************************************************)
(* The OpenAI-client scripts.                                              *)
(***************************************************************************)
PrimaryModel  == "claude-sonnet-4"
FallbackModel == "claude-3-5-sonnet"

\* demo_quota_isolation.py
send_consumer_request(cid, request_id, o) ==
    IF o.stage = "ok"
    THEN ResultRecord(request_id, TRUE, "absent", cid, o.model, o.latency, NoError)
    ELSE IF o.exc = "RateLimitError"
    THEN ResultRecord(request_id, FALSE, "absent", cid, "None", 0, <<"RateLimitError">>)
    ELSE ResultRecord(request_id, FALSE, "absent", cid, "None", 0, o.msg)

\* demo_load_balancing.py
send_request(request_id, o) ==
    IF o.stage = "ok"
    THEN ResultRecord(request_id, TRUE, "absent", "absent", o.model, o.latency, NoError)
    ELSE ResultRecord(request_id, FALSE, "absent", "absent", "error", 0, o.msg)

\* demo_fallback.py: 'sonnet-3-5' in model_used.lower() or '3-5-sonnet' in ...
IsFallbackName(model_used) == model_used = FallbackModel

\* demo_fallback.py: the dict the worker appends (a failure has no
\* response_time key: padded with 0; RateLimitError is an APIError, and its
\* clause comes first)
fallback_result(req_id, o) ==
    IF o.stage = "ok"
    THEN [ResultRecord(req_id, TRUE, "absent", "absent", o.model, o.latency, NoError)
            EXCEPT !.is_fallback = IsFallbackName(o.model)]
    ELSE IF o.exc = "RateLimitError"
    THEN ResultRecord(req_id, FALSE, "absent", "absent", "absent", 0, <<"RateLimitError">>)
    ELSE IF o.exc = "APIError"
    THEN ResultRecord(req_id, FALSE, "absent", "absent", "absent", 0, <<"APIError">>)
    ELSE ResultRecord(req_id, FALSE, "absent", "absent", "absent", 0, o.msg)

(***************************************************************************)
(* The batch: which scripts, which strategies, which outcomes.             *)
(***************************************************************************)
Scripts == {"sharding", "cris", "quota", "loadbalance", "fallback"}

\* ThreadPoolExecutor scripts; the other two start one Thread per question
Pooled(scr) == scr \in {"sharding", "cris", "quota"}

Strategies == {"round-robin", "split", "random"}

ConsumerIds == {"A", "B", "C"}

BedrockBatchOutcomes ==
    {OkOutcome(l, ModelId) : l \in Latencies}
    \cup {RaiseOutcome("call", "ClientError", <<"ThrottlingException">>),
          RaiseOutcome("client", "ClientError", <<"ProfileNotFound">>)}

OpenAIBatchOutcomes ==
    {OkOutcome(100, PrimaryModel), OkOutcome(300, FallbackModel),
     RaiseOutcome("call", "RateLimitError", <<"timeout">>),
     RaiseOutcome("call", "APIError", <<"timeout">>)}

BatchOutcomes(scr) ==
    IF scr \in {"sharding", "cris"} THEN BedrockBatchOutcomes ELSE OpenAIBatchOutcomes

\* max_workers of the executor
MaxWorkers(scr, n) == IF scr = "sharding" THEN Min(n, WorkerCeiling) ELSE n

\* mutant: the first half is rounded up
UsePrimary_CeilHalf(strategy, req_id, n, coin) ==
    IF strategy = "round-robin" THEN req_id % 2 = 0
    ELSE IF strategy = "split" THEN req_id < (n + 1) \div 2
    ELSE coin

\* demo_account_sharding.py worker: use_primary for 0-based req_id
UsePrimary(strategy, req_id, n, coin) ==
    IF strategy = "round-robin" THEN req_id % 2 = 0
    ELSE IF strategy = "split" THEN req_id < n \div 2
    ELSE coin

AccountType(use_primary) == IF use_primary THEN "ACCOUNT1" ELSE "ACCOUNT2"

\* mutant: the 0-based loop index is passed as the request id
RequestResult_ZeroBased(scr, rid, o, coin) ==
    IF scr = "sharding"
    THEN send_bedrock_request(rid - 1, ModelId,
             AccountType(UsePrimary(distribution_strategy, rid - 1, num_requests, coin)), o)
    ELSE IF scr = "cris" THEN send_bedrock_request(rid - 1, ModelId, "absent", o)
    ELSE IF scr = "quota" THEN send_consumer_request(consumer_id, rid - 1, o)
    ELSE IF scr = "loadbalance" THEN send_request(rid, o)
    ELSE fallback_result(rid, o)

\* the dict worker rid (request id, 1-based) obtains for outcome o
RequestResult(scr, rid, o, coin) ==
    IF scr = "sharding"
    THEN send_bedrock_request(rid, ModelId,
             AccountType(UsePrimary(distribution_strategy, rid - 1, num_requests, coin)), o)
    ELSE IF scr = "cris" THEN send_bedrock_request(rid, ModelId, "absent", o)
    ELSE IF scr = "quota" THEN send_consumer_request(consumer_id, rid, o)
    ELSE IF scr = "loadbalance" THEN send_request(rid, o)
    ELSE fallback_result(rid, o)

Workers == 1..num_requests

Finished(i) == wstate[i] \in {"done", "raised"}

\* pool threads that hold a work item
Active == {i \in Workers : wstate[i] \in {"running", "returned", "locked"}}


(***************************************************************************)
(* The log query of the poller.  A query result is None, {} or a snapshot  *)
(* dict; the three are records of one shape, told apart by kind.           *)
(***************************************************************************)
Regions == {"us-east-1", "us-west-2"}

Accounts == {"ACCOUNT1", "ACCOUNT2"}

Labels == {"CRIS"} \cup Accounts

NoDist == <<>>

QueryNone ==
    [kind |-> "None", region_distribution |-> NoDist, total_invocations |-> 0,
     account_type |-> "absent"]

QueryEmpty ==
    [kind |-> "empty", region_distribution |-> NoDist, total_invocations |-> 0,
     account_type |-> "absent"]

Snapshot(dist, total, account_type) ==
    [kind |-> "snapshot", region_distribution |-> dist,
     total_invocations |-> total, account_type |-> account_type]

\* Python truth of a query result: None and {} are false
Truthy(res) == res.kind = "snapshot"

\* res.get('total_invocations', 0), also of the {} default
TotalOf(res) == IF res.kind = "snapshot" THEN res.total_invocations ELSE 0

\* res and res.get('region_distribution')
HasDistribution(res) == Truthy(res) /\ res.region_distribution # NoDist

\* a field of a result row holding a count: its text is a number or not;
\* a row of "stats count(*) by region" counts at least one log event
CountValues == {1, 2}

CountFields ==
    {[numeric |-> TRUE, n |-> c] : c \in CountValues}
    \cup {[numeric |-> FALSE, n |-> 0]}

\* a row is a list of fields; a row of one field is skipped by the parser
Rows == {<<"us-east-1">>} \cup {<<r, c>> : r \in Regions, c \in CountFields}

\* get_query_results: it raises, or answers with a list of rows
Responses ==
    {[raises |-> TRUE, results |-> <<>>]}
    \cup {[raises |-> FALSE, results |-> rows] : rows \in SeqsUpTo(Rows, MaxPollRows)}

\* dist with dist[region] = count set or overwritten
DictSet(dist, region, count) ==
    [r \in (DOMAIN dist) \cup {region} |-> IF r = region THEN count ELSE dist[r]]

RECURSIVE ParseRows(_, _, _)
\* the for loop of get_cloudwatch_results; ok is FALSE when int() raised
ParseRows(rows, dist, total) ==
    IF rows = <<>> THEN [ok |-> TRUE, dist |-> dist, total |-> total]
    ELSE LET row == Head(rows)
         IN IF Len(row) >= 2
            THEN IF row[2].numeric
                 THEN ParseRows(Tail(rows), DictSet(dist, row[1], row[2].n),
                                total + row[2].n)
                 ELSE [ok |-> FALSE, dist |-> dist, total |-> total]
            ELSE ParseRows(Tail(rows), dist, total)

\* demo_cris.py (account_type "absent") and demo_account_sharding.py
get_cloudwatch_results(response, account_type) ==
    IF response.raises THEN QueryEmpty
    ELSE IF response.results = <<>> THEN QueryEmpty
    ELSE LET parsed == ParseRows(response.results, NoDist, 0)
         IN IF parsed.ok THEN Snapshot(parsed.dist, parsed.total, account_type)
            ELSE QueryEmpty

\* what the status polls of one query observe: running times "Running",
\* then the answer  then  for good ("NotFound": the query id is not listed,
\* "Exception": describe_queries raised, "Scheduled": any other status)
Thens == {"Complete", "Failed", "Cancelled", "NotFound", "Exception",
          "Running", "Scheduled"}

StatusAt(env, k) == IF k <= env.running THEN "Running" ELSE env.then

RECURSIVE WaitLoop(_, _, _)
\* the while loop of wait_for_query_completion at its k-th poll, elapsed
\* seconds after start_time
WaitLoop(env, k, elapsed) ==
    IF ~(elapsed < QueryTimeout) THEN FALSE
    ELSE LET status == StatusAt(env, k)
         IN IF status \in {"NotFound", "Exception"} THEN FALSE
            ELSE IF status = "Complete" THEN TRUE
            ELSE IF status \in {"Failed", "Cancelled"} THEN FALSE
            ELSE WaitLoop(env, k + 1, elapsed + StatusPollSleep)

wait_for_query_completion(env) == WaitLoop(env, 1, 0)

NoResponse == [raises |-> TRUE, results |-> <<>>]

\* what the external service does with one query: the credentials test
\* passes or not, start_query returns an id or not, the status polls, the
\* answer of get_query_results; fields that are never looked at are fixed
QueryEnvs ==
    {[creds |-> FALSE, start |-> FALSE, running |-> 0, then |-> "Failed",
      response |-> NoResponse],
     [creds |-> TRUE, start |-> FALSE, running |-> 0, then |-> "Failed",
      response |-> NoResponse]}
    \cup {[creds |-> TRUE, start |-> TRUE, running |-> n, then |-> t,
           response |-> NoResponse] :
            n \in 0..MaxRunning, t \in Thens \ {"Complete"}}
    \cup {[creds |-> TRUE, start |-> TRUE, running |-> n, then |-> "Complete",
           response |-> resp] :
            n \in 0..MaxRunning, resp \in Responses}

\* query_cloudwatch_distribution / query_cloudwatch_distribution_for_account
query_cloudwatch_distribution(env, account_type) ==
    IF ~env.creds THEN QueryNone
    ELSE IF ~env.start THEN QueryNone
    ELSE IF ~wait_for_query_completion(env) THEN QueryNone
    ELSE get_cloudwatch_results(env.response, account_type)

\* mutant: the wait grows with the attempt index
WaitTime_Growing(a) == IF a = 0 THEN FirstWait ELSE LaterWait * a

\* wait_time of the attempt with 0-based index a
WaitTime(a) == IF a = 0 THEN FirstWait ELSE LaterWait

\* a loop with one more iteration than range(max_attempts)
LoopContinues_OneMore(a) == a + 1 < MaxAttempts + 1

\* for attempt in range(max_attempts): there is a next iteration after a
LoopContinues(a) == a + 1 < MaxAttempts

\* the dict all_cloudwatch_results: an account without a key holds QueryNone
NoCloudwatchResults == [a \in Accounts |-> QueryNone]

HasKey(dict, a) == dict[a].kind # "None"

\* the expected count of an account: primary_successful, secondary_successful
ExpectedOf(a) ==
    IF a = "ACCOUNT1" THEN primary_expected_count ELSE secondary_expected_count

IdlePoll ==
    /\ poll_script = "none"
    /\ expected_count = 0
    /\ primary_expected_count = 0
    /\ secondary_expected_count = 0
    /\ poll_pc = "idle"
    /\ attempt = 0
    /\ cloudwatch_results = QueryNone
    /\ all_cloudwatch_results = NoCloudwatchResults
    /\ pending = {}
    /\ queries = [l \in Labels |-> 0]
    /\ best = [l \in Labels |-> 0 - 1]
    /\ slept = 0
    /\ shown = [l \in Labels |-> QueryNone]


(***************************************************************************)
(* Statistics.  A rate or mean the script does not compute or print is     *)
(* NotShown.                                                               *)
(***************************************************************************)
NotShown == <<>>

IsSuccess(r) == r.success

\* mutant: a throttled call is left out of the failed count
IsFailure_NotThrottled(r) == ~r.success /\ r.error # <<"ThrottlingException">>

IsFailure(r) == ~r.success
IsThrottled(r) == r.error = <<"ThrottlingException">>
IsRateLimited(r) == r.error = <<"RateLimitError">>
IsPrimary(r) == r.account_type = "ACCOUNT1"
IsSecondary(r) == r.account_type = "ACCOUNT2"

\* mutant: integer division,  successful // total * 100
SuccessRate_FloorDiv(successful, total) ==
    IF total > 0 THEN Frac((successful \div total) * 100, 1) ELSE Zero

\* (successful / total) * 100 if total > 0 else 0
SuccessRate(successful, total) ==
    IF total > 0 THEN Div(successful * 100, total) ELSE Zero

\* mutant: the mean is taken over all results, failed ones included
AvgResponseTime_OverAll(rs, successful) ==
    IF Len(rs) > 0 THEN Frac(SumTimes(rs), Len(rs)) ELSE Zero

\* mutant: the mean is computed whatever the number of successes
AvgResponseTime_Unguarded(rs, successful) ==
    Div(SumTimes(SelectSeq(rs, IsSuccess)), successful)

\* sum(r["response_time"] for r in rs if r["success"]) / successful
\*     if successful > 0 else 0
AvgResponseTime(rs, successful) ==
    IF successful > 0 THEN Div(SumTimes(SelectSeq(rs, IsSuccess)), successful)
    ELSE Zero

FracAdd(a, b) == Div(a[1] * b[2] + b[1] * a[2], a[2] * b[2])
FracHalf(a) == Div(a[1], a[2] * 2)

NoReport ==
    [total |-> 0, successful |-> 0, failed |-> 0, throttled |-> 0,
     success_rate |-> NotShown, avg_response_time |-> NotShown,
     primary_total |-> 0, primary_successful |-> 0, primary_failed |-> 0,
     primary_throttled |-> 0, secondary_throttled |-> 0,
     primary_success_rate |-> NotShown, primary_avg_time |-> NotShown,
     secondary_total |-> 0, secondary_successful |-> 0, secondary_failed |-> 0,
     secondary_success_rate |-> NotShown, secondary_avg_time |-> NotShown,
     total_avg_time |-> NotShown]

\* demo_cris.py
analyze_cris_results(rs) ==
    LET successful == Count(rs, IsSuccess)
        failed == Count(rs, IsFailure)
        total == Len(rs)
    IN [NoReport EXCEPT
          !.total = total, !.successful = successful, !.failed = failed,
          !.success_rate = SuccessRate(successful, total),
          !.avg_response_time = AvgResponseTime(rs, successful)]

\* demo_account_sharding.py: the statistics and the three table rows
analyze_cross_account_results(rs) ==
    LET primary_results == SelectSeq(rs, IsPrimary)
        secondary_results == SelectSeq(rs, IsSecondary)
        primary_successful == Count(primary_results, IsSuccess)
        secondary_successful == Count(secondary_results, IsSuccess)
        total == Len(rs)
        total_successful == primary_successful + secondary_successful
        primary_avg_time == AvgResponseTime(primary_results, primary_successful)
        secondary_avg_time == AvgResponseTime(secondary_results, secondary_successful)
    IN [NoReport EXCEPT
          !.total = total, !.successful = total_successful,
          !.failed = total - total_successful,
          !.primary_throttled = Count(primary_results, IsThrottled),
          !.secondary_throttled = Count(secondary_results, IsThrottled),
          !.success_rate = SuccessRate(total_successful, total),
          !.primary_total = Len(primary_results),
          !.primary_successful = primary_successful,
          !.primary_failed = Count(primary_results, IsFailure),
          !.primary_success_rate =
              IF Len(primary_results) > 0
              THEN Div(primary_successful * 100, Len(primary_results))
              ELSE NotShown,
          !.primary_avg_time = primary_avg_time,
          !.secondary_total = Len(secondary_results),
          !.secondary_successful = secondary_successful,
          !.secondary_failed = Count(secondary_results, IsFailure),
          !.secondary_success_rate =
              IF Len(secondary_results) > 0
              THEN Div(secondary_successful * 100, Len(secondary_results))
              ELSE NotShown,
          !.secondary_avg_time = secondary_avg_time,
          !.total_avg_time = FracHalf(FracAdd(primary_avg_time, secondary_avg_time))]

\* demo_quota_isolation.py: consumer_stats[consumer_id] of one consumer
analyze_and_display_results(rs) ==
    LET successful == Count(rs, IsSuccess)
    IN [NoReport EXCEPT
          !.total = Len(rs), !.successful = successful,
          !.failed = Count(rs, IsFailure),
          !.throttled = Count(rs, IsRateLimited),
          !.success_rate = SuccessRate(successful, Len(rs)),
          !.avg_response_time = AvgResponseTime(rs, successful)]

\* demo_load_balancing.py: the counts and the average of the results block
demo_load_balancing(rs) ==
    LET successful_requests == Count(rs, IsSuccess)
    IN [NoReport EXCEPT
          !.total = Len(rs), !.successful = successful_requests,
          !.failed = Count(rs, IsFailure),
          !.avg_response_time = AvgResponseTime(rs, successful_requests)]

\* demo_fallback.py: the counts of the results block
trigger_rate_limit_scenario(rs) ==
    [NoReport EXCEPT
       !.total = Len(rs), !.successful = Count(rs, IsSuccess),
       !.failed = Count(rs, IsFailure)]

Analysis(scr, rs) ==
    IF scr = "cris" THEN analyze_cris_results(rs)
    ELSE IF scr = "sharding" THEN analyze_cross_account_results(rs)
    ELSE IF scr = "quota" THEN analyze_and_display_results(rs)
    ELSE IF scr = "loadbalance" THEN demo_load_balancing(rs)
    ELSE trigger_rate_limit_scenario(rs)

(***************************************************************************)
(* SpecBatch: one batch of one script.                                     *)
(*   main thread:  submit (or Thread.start) each request, wait for all     *)
(*                 (as_completed / join), analyze.                         *)
(*   worker rid:   queued -> running -> returned -> locked -> done, or     *)
(*                 raised when an exception leaves the worker function.    *)
(***************************************************************************)
\* the main thread has passed the as_completed loop / the joins
IdleAssign ==
    /\ assign_n = 0
    /\ assign_strategy = "none"
    /\ assign_index = 0 - 1
    /\ assign_account = "none"

IdlePool ==
    /\ pool_script = "none"
    /\ pool_n = 0
    /\ pool_submitted = 0
    /\ pool_active = 0
    /\ pool_done = 0

IdleCli ==
    /\ cli_script = "none"
    /\ cli_requests = 0
    /\ cli_loop = FALSE
    /\ cli_interval = 0
    /\ cli_pc = "idle"
    /\ primary_account = "unset"
    /\ secondary_account = "unset"
    /\ exit_status = 0 - 1
    /\ printed = "none"
    /\ dispatched = 0

IdleQuery ==
    /\ q_pc = "idle"
    /\ q_label = "none"
    /\ q_elapsed = 0
    /\ q_status = <<>>
    /\ q_fetched = <<>>
    /\ q_cause = <<>>
    /\ stats_failed = 0
    /\ stats = <<>>
    /\ returned = <<>>

IdleLoop ==
    /\ loop_script = "none"
    /\ loop_pc = "idle"
    /\ interval_seconds = 0
    /\ shutdown_requested = FALSE
    /\ run_count = 0
    /\ total_stats = <<>>
    /\ ticks_left = 0
    /\ final_printed = <<>>
    /\ sig_pc = "none"
    /\ sig_runs = 0
    /\ sig_sleeps = 0

IdleStat ==
    /\ stat_kind = "none"
    /\ stat_results = <<>>
    /\ stat_totals = <<>>
    /\ stat_snapshot = <<>>
    /\ stat_out = {}
    /\ stat_pc = "idle"

IdleConfig ==
    /\ cfg_script = "none"
    /\ cfg_key = "none"
    /\ cfg_section = "none"
    /\ cfg_value = "none"
    /\ cfg_pc = "idle"
    /\ cfg_loads = 0
    /\ cfg_result = "none"

IdleParse ==
    /\ parse_response = <<>>
    /\ parse_account = "none"
    /\ parse_out = <<>>
    /\ parse_pc = "idle"

IdleWait ==
    /\ wait_pc = "idle"
    /\ wait_elapsed = 0
    /\ wait_polls = 0
    /\ wait_status = "none"
    /\ wait_result = "none"

IdleTally ==
    /\ tally_script = "none"
    /\ tally_n = 0
    /\ t_pc = <<>>
    /\ t_out = <<>>
    /\ t_tmp = <<>>
    /\ t_lock = 0
    /\ t_counts = <<>>
    /\ t_results = <<>>
    /\ t_events = 0
    /\ t_report = <<>>

IdleMore ==
    /\ IdleAssign
    /\ IdlePool
    /\ IdleCli
    /\ IdleQuery
    /\ IdleLoop
    /\ IdleStat
    /\ IdleConfig
    /\ IdleParse
    /\ IdleWait
    /\ IdleTally

IdleNotAssign ==
    /\ IdlePool
    /\ IdleCli
    /\ IdleQuery
    /\ IdleLoop
    /\ IdleStat
    /\ IdleConfig
    /\ IdleParse
    /\ IdleWait
    /\ IdleTally

IdleNotPool ==
    /\ IdleAssign
    /\ IdleCli
    /\ IdleQuery
    /\ IdleLoop
    /\ IdleStat
    /\ IdleConfig
    /\ IdleParse
    /\ IdleWait
    /\ IdleTally

IdleNotCli ==
    /\ IdleAssign
    /\ IdlePool
    /\ IdleQuery
    /\ IdleLoop
    /\ IdleStat
    /\ IdleConfig
    /\ IdleParse
    /\ IdleWait
    /\ IdleTally

IdleNotQuery ==
    /\ IdleAssign
    /\ IdlePool
    /\ IdleCli
    /\ IdleLoop
    /\ IdleStat
    /\ IdleConfig
    /\ IdleParse
    /\ IdleWait
    /\ IdleTally

IdleNotLoop ==
    /\ IdleAssign
    /\ IdlePool
    /\ IdleCli
    /\ IdleQuery
    /\ IdleStat
    /\ IdleConfig
    /\ IdleParse
    /\ IdleWait
    /\ IdleTally

IdleNotStat ==
    /\ IdleAssign
    /\ IdlePool
    /\ IdleCli
    /\ IdleQuery
    /\ IdleLoop
    /\ IdleConfig
    /\ IdleParse
    /\ IdleWait
    /\ IdleTally

IdleNotConfig ==
    /\ IdleAssign
    /\ IdlePool
    /\ IdleCli
    /\ IdleQuery
    /\ IdleLoop
    /\ IdleStat
    /\ IdleParse
    /\ IdleWait
    /\ IdleTally

IdleNotParse ==
    /\ IdleAssign
    /\ IdlePool
    /\ IdleCli
    /\ IdleQuery
    /\ IdleLoop
    /\ IdleStat
    /\ IdleConfig
    /\ IdleWait
    /\ IdleTally

IdleNotWait ==
    /\ IdleAssign
    /\ IdlePool
    /\ IdleCli
    /\ IdleQuery
    /\ IdleLoop
    /\ IdleStat
    /\ IdleConfig
    /\ IdleParse
    /\ IdleTally

IdleNotTally ==
    /\ IdleAssign
    /\ IdlePool
    /\ IdleCli
    /\ IdleQuery
    /\ IdleLoop
    /\ IdleStat
    /\ IdleConfig
    /\ IdleParse
    /\ IdleWait

BarrierPassed(n) == joined = n

IdleSend ==
    /\ send_script = "none"
    /\ send_outcome = RaiseOutcome("none", "none", NoMsg)
    /\ sent = NoResult
    /\ send_log = "none"

IdleBatch ==
    /\ script = "none"
    /\ num_requests = 0
    /\ distribution_strategy = "none"
    /\ consumer_id = "none"
    /\ main_pc = "idle"
    /\ submitted = 0
    /\ joined = 0
    /\ wstate = <<>>
    /\ outcome = <<>>
    /\ calls = <<>>
    /\ wresult = <<>>
    /\ results = <<>>
    /\ results_lock = 0
    /\ report = NoReport

InitBatch ==
    /\ IdleSend
    /\ IdlePoll
    /\ IdleMore
    /\ script \in Scripts
    /\ num_requests \in
         IF Pooled(script) THEN 1..MaxN ELSE {Min(NumQuestions, MaxN)}
    /\ distribution_strategy \in
         IF script = "sharding" THEN Strategies ELSE {"none"}
    /\ consumer_id \in IF script = "quota" THEN ConsumerIds ELSE {"none"}
    /\ main_pc = "submit"
    /\ submitted = 0
    /\ joined = 0
    /\ wstate = [i \in 1..num_requests |-> "new"]
    /\ outcome = [i \in 1..num_requests |-> RaiseOutcome("none", "none", NoMsg)]
    /\ calls = [i \in 1..num_requests |-> 0]
    /\ wresult = [i \in 1..num_requests |-> NoResult]
    /\ results = <<>>
    /\ results_lock = 0
    /\ report = NoReport

\* executor.submit(worker, i)  /  thread.start()
Submit ==
    /\ main_pc = "submit"
    /\ submitted < num_requests
    /\ submitted' = submitted + 1
    /\ wstate' = [wstate EXCEPT ![submitted + 1] =
                     IF Pooled(script) THEN "queued" ELSE "running"]
    /\ main_pc' = IF submitted + 1 = num_requests THEN "wait" ELSE "submit"
    /\ UNCHANGED <<sendVars, pollVars, moreVars>>
    /\ UNCHANGED <<script, num_requests, distribution_strategy, consumer_id,
                   joined, outcome, calls, wresult, results, results_lock, report>>

\* a pool thread takes the oldest queued work item
Start(i) ==
    /\ Pooled(script)
    /\ wstate[i] = "queued"
    /\ \A j \in 1..(i - 1) : wstate[j] # "queued"
    /\ Cardinality(Active) < MaxWorkers(script, num_requests)
    /\ wstate' = [wstate EXCEPT ![i] = "running"]
    /\ UNCHANGED <<sendVars, pollVars, moreVars>>
    /\ UNCHANGED <<script, num_requests, distribution_strategy, consumer_id,
                   main_pc, submitted, joined, outcome, calls, wresult,
                   results, results_lock, report>>

\* the body of the send function (and of the fallback worker's try): the
\* external call ends with outcome o; coin is random.choice([True, False])
Call(i, o, coin) ==
    /\ wstate[i] = "running"
    /\ (script = "sharding" /\ distribution_strategy = "random") \/ coin
    /\ outcome' = [outcome EXCEPT ![i] = o]
    /\ calls' = [calls EXCEPT ![i] = @ + IF CallIssued(o) THEN 1 ELSE 0]
    /\ IF Caught(script, o)
       THEN /\ wresult' = [wresult EXCEPT ![i] = RequestResult(script, i, o, coin)]
            /\ wstate' = [wstate EXCEPT ![i] = "returned"]
       ELSE /\ wstate' = [wstate EXCEPT ![i] = "raised"]
            /\ UNCHANGED wresult
    /\ UNCHANGED <<sendVars, pollVars, moreVars>>
    /\ UNCHANGED <<script, num_requests, distribution_strategy, consumer_id,
                   main_pc, submitted, joined, results, results_lock, report>>

\* with results_lock:
Acquire(i) ==
    /\ wstate[i] = "returned"
    /\ results_lock = 0
    /\ results_lock' = i
    /\ wstate' = [wstate EXCEPT ![i] = "locked"]
    /\ UNCHANGED <<sendVars, pollVars, moreVars>>
    /\ UNCHANGED <<script, num_requests, distribution_strategy, consumer_id,
                   main_pc, submitted, joined, outcome, calls, wresult,
                   results, report>>

\* results.append(result), and the lock is released
AppendResult(i) ==
    /\ wstate[i] = "locked"
    /\ results_lock = i
    /\ results' = Append(results, wresult[i])
    /\ results_lock' = 0
    /\ wstate' = [wstate EXCEPT ![i] = "done"]
    /\ UNCHANGED <<sendVars, pollVars, moreVars>>
    /\ UNCHANGED <<script, num_requests, distribution_strategy, consumer_id,
                   main_pc, submitted, joined, outcome, calls, wresult, report>>

\* for future in as_completed(futures): pass  runs to exhaustion, which takes
\* every future to be finished (the loop body does nothing), followed by the
\* executor's shutdown(wait=True) at the end of the with block
JoinPool ==
    /\ Pooled(script)
    /\ main_pc = "wait"
    /\ joined < num_requests
    /\ \A i \in Workers : Finished(i)
    /\ joined' = num_requests
    /\ UNCHANGED <<sendVars, pollVars, moreVars>>
    /\ UNCHANGED <<script, num_requests, distribution_strategy, consumer_id,
                   main_pc, submitted, wstate, outcome, calls, wresult,
                   results, results_lock, report>>

\* mutant: join returns without waiting for the thread (a zero timeout)
JoinThread_NoWait ==
    /\ ~Pooled(script)
    /\ main_pc = "wait"
    /\ joined < num_requests
    /\ joined' = joined + 1
    /\ UNCHANGED <<sendVars, pollVars, moreVars>>
    /\ UNCHANGED <<script, num_requests, distribution_strategy, consumer_id,
                   main_pc, submitted, wstate, outcome, calls, wresult,
                   results, results_lock, report>>

\* one iteration of  for thread in threads: thread.join()  (the next thread,
\* in launch order)
JoinThread ==
    /\ ~Pooled(script)
    /\ main_pc = "wait"
    /\ joined < num_requests
    /\ Finished(joined + 1)
    /\ joined' = joined + 1
    /\ UNCHANGED <<sendVars, pollVars, moreVars>>
    /\ UNCHANGED <<script, num_requests, distribution_strategy, consumer_id,
                   main_pc, submitted, wstate, outcome, calls, wresult,
                   results, results_lock, report>>

\* the loop is exhausted: the statistics are computed from results
Analyze ==
    /\ main_pc = "wait"
    /\ BarrierPassed(num_requests)
    /\ report' = Analysis(script, results)
    /\ main_pc' = "done"
    /\ UNCHANGED <<sendVars, pollVars, moreVars>>
    /\ UNCHANGED <<script, num_requests, distribution_strategy, consumer_id,
                   submitted, joined, wstate, outcome, calls, wresult,
                   results, results_lock>>

NextBatch ==
    \/ Submit
    \/ \E i \in Workers : Start(i)
    \/ \E i \in Workers : \E o \in BatchOutcomes(script) : \E coin \in BOOLEAN :
           Call(i, o, coin)
    \/ \E i \in Workers : Acquire(i)
    \/ \E i \in Workers : AppendResult(i)
    \/ JoinPool
    \/ JoinThread
    \/ Analyze

SpecBatch == InitBatch /\ [][NextBatch]_vars


(***************************************************************************)
(* SpecSend: send_bedrock_request applied once to every outcome.           *)
(***************************************************************************)
InitSend ==
    /\ IdleBatch
    /\ IdlePoll
    /\ IdleMore
    /\ send_script \in {"sharding", "cris"}
    /\ send_outcome \in SendOutcomes
    /\ sent = NoResult
    /\ send_log = "none"

SendOnce ==
    /\ send_log = "none"
    /\ sent' = send_bedrock_request(1, ModelId,
                   IF send_script = "sharding" THEN "ACCOUNT1" ELSE "absent",
                   send_outcome)
    /\ send_log' = BedrockLogLine(send_script, send_outcome)
    /\ UNCHANGED <<send_script, send_outcome>>
    /\ UNCHANGED <<batchVars, pollVars, moreVars>>

NextSend == SendOnce

SpecSend == InitSend /\ [][NextSend]_vars


(***************************************************************************)
(* What the external service did, counted from the calls themselves (not   *)
(* from the results collection).                                           *)
(***************************************************************************)
Called(i) == outcome[i].stage # "none"
Succeeded(i) == outcome[i].stage = "ok"
Failed(i) == Called(i) /\ ~Succeeded(i)

\* the account the worker sent request i to
SentTo(i) == wresult[i].account_type

RECURSIVE LatencySum(_)
LatencySum(S) ==
    IF S = {} THEN 0
    ELSE LET i == CHOOSE x \in S : TRUE
         IN outcome[i].latency + LatencySum(S \ {i})

RecordsOf(id) == {k \in DOMAIN results : results[k].request_id = id}

\* the rate 100*S/(S+F), 0 when S+F = 0
ExpectedRate(S, F) ==
    IF Cardinality(S) + Cardinality(F) = 0 THEN Zero
    ELSE Frac(100 * Cardinality(S), Cardinality(S) + Cardinality(F))

\* the mean of the latencies of the successful calls S, 0 when there is none
ExpectedMean(S) ==
    IF S = {} THEN Zero ELSE Frac(LatencySum(S), Cardinality(S))

(***************************************************************************)
(* Claims about the batch (SpecBatch).                                     *)
(***************************************************************************)

\* C1: once the main thread has passed the barrier, results holds exactly
\* num_requests records, exactly one for each request id 1..num_requests,
\* whatever the interleaving and whatever succeeded or failed.
C1_ExactlyOneRecordPerRequest ==
    BarrierPassed(num_requests) /\ main_pc # "idle" =>
        /\ Len(results) = num_requests
        /\ \A id \in 1..num_requests : Cardinality(RecordsOf(id)) = 1

\* C1 witness: a full random-strategy batch is past the barrier with a
\* success and a failure, recorded out of request-id order.
C1_Witness ==
    /\ script = "sharding" /\ distribution_strategy = "random"
    /\ num_requests = MaxN /\ main_pc = "done"
    /\ \E i, j \in Workers : Succeeded(i) /\ Failed(j)
    /\ Len(results) = MaxN
    /\ results[1].request_id = MaxN

\* C2: the statistics are computed (the first read of results) only when
\* no worker of the batch is in flight: every worker has finished and the
\* lock is free.
C2_NoAnalysisBeforeJoin ==
    main_pc = "done" =>
        /\ \A i \in Workers : Finished(i)
        /\ results_lock = 0
        /\ submitted = num_requests

\* C2 witness: a thread-per-request batch was analysed after its last
\* launched thread was the first to finish.
C2_Witness ==
    /\ script \in {"fallback", "loadbalance"}
    /\ main_pc = "done"
    /\ num_requests > 1
    /\ Len(results) = num_requests
    /\ results[1].request_id = num_requests
    /\ \E i \in Workers : Failed(i)

\* C8 as claimed: a failed call is recorded exactly once with success=false,
\* exactly one outbound inference call is made per request id, every other
\* request is recorded as well, and no exception leaves a worker.
C8_Original ==
    BarrierPassed(num_requests) /\ main_pc # "idle" =>
        /\ \A i \in Workers :
              Failed(i) => /\ Cardinality(RecordsOf(i)) = 1
                           /\ \A k \in RecordsOf(i) : ~results[k].success
        /\ \A i \in Workers : calls[i] = 1
        /\ Len(results) = num_requests
        /\ \A i \in Workers : wstate[i] # "raised"

\* C8 amended: as claimed, except that at most one outbound inference call is
\* made per request id: exactly one unless building the session or client
\* raised before the call, and then none.
C8_FailureRecordedOnceNoRetry ==
    /\ \A i \in DOMAIN calls : calls[i] <= 1
    /\ BarrierPassed(num_requests) /\ main_pc # "idle" =>
        /\ \A i \in Workers :
              Failed(i) => /\ Cardinality(RecordsOf(i)) = 1
                           /\ \A k \in RecordsOf(i) : ~results[k].success
        /\ \A i \in Workers :
              calls[i] = IF outcome[i].stage = "client" THEN 0 ELSE 1
        /\ Len(results) = num_requests
        /\ \A i \in Workers : wstate[i] # "raised"

\* C8 witness: a sharding batch where the first request failed and a later
\* one succeeded, all recorded.
C8_Witness ==
    /\ script = "sharding" /\ main_pc = "done" /\ num_requests = MaxN
    /\ Failed(1) /\ calls[1] = 1
    /\ Succeeded(MaxN)
    /\ \E i \in Workers : outcome[i].stage = "client"
    /\ Len(results) = MaxN

\* C9: the reported success rate is 100*S/(S+F) for the S successful and F
\* failed calls of the batch (0 when S+F = 0), overall (cris, sharding) and
\* for every per-account and per-consumer rate that is reported.
C9_SuccessRate ==
    main_pc = "done" =>
        LET S == {i \in Workers : Succeeded(i)}
            F == {i \in Workers : Failed(i)}
            S1 == {i \in S : SentTo(i) = "ACCOUNT1"}
            F1 == {i \in F : SentTo(i) = "ACCOUNT1"}
            S2 == {i \in S : SentTo(i) = "ACCOUNT2"}
            F2 == {i \in F : SentTo(i) = "ACCOUNT2"}
        IN /\ script \in {"cris", "sharding", "quota"} =>
                  report.success_rate = ExpectedRate(S, F)
           /\ script = "sharding" =>
                /\ report.primary_success_rate # NotShown <=> S1 \cup F1 # {}
                /\ report.primary_success_rate # NotShown =>
                       report.primary_success_rate = ExpectedRate(S1, F1)
                /\ report.secondary_success_rate # NotShown <=> S2 \cup F2 # {}
                /\ report.secondary_success_rate # NotShown =>
                       report.secondary_success_rate = ExpectedRate(S2, F2)

\* C9 witness: a sharding batch reported with two successes and a failure
\* overall, and an account with one success and one failure.
C9_Witness ==
    /\ script = "sharding" /\ main_pc = "done"
    /\ Cardinality({i \in Workers : Succeeded(i)}) = 2
    /\ Cardinality({i \in Workers : Failed(i)}) = 1
    /\ report.success_rate = <<200, 3>>
    /\ report.primary_success_rate = <<50, 1>>

\* C10: the reported mean latency is the sum of the latencies of the
\* successful calls over their number; failed calls enter neither, and the
\* mean is 0 when no call succeeded (cris, load balancing, quota).
C10_MeanLatency ==
    main_pc = "done" /\ script \in {"cris", "loadbalance", "quota"} =>
        report.avg_response_time = ExpectedMean({i \in Workers : Succeeded(i)})

\* C10 witness: a report over two successes of different latency and one
\* failure; the mean is 200.
C10_Witness ==
    /\ script \in {"cris", "loadbalance", "quota"} /\ main_pc = "done"
    /\ num_requests = 3
    /\ \E i \in Workers : Failed(i)
    /\ \E i, j \in Workers : Succeeded(i) /\ Succeeded(j)
                               /\ outcome[i].latency # outcome[j].latency
    /\ report.avg_response_time = <<200, 1>>

\* C10 witness of the guarded case: no call succeeded and the mean is 0.
C10_WitnessNoSuccess ==
    /\ script = "quota" /\ main_pc = "done"
    /\ \A i \in Workers : Failed(i)
    /\ report.avg_response_time = Zero

\* the service throttled call i: what the call did, not what was recorded
Throttled(i) ==
    /\ Failed(i)
    /\ IF script \in {"sharding", "cris"}
       THEN Contains(outcome[i].msg, "ThrottlingException")
              \/ Contains(outcome[i].msg, "ServiceQuota")
       ELSE outcome[i].exc = "RateLimitError"

\* C11: in the statistics of a batch total = successful + failed, every call
\* is counted in exactly one of the two (successful is the number of calls
\* that succeeded, failed the number that did not), and every throttled call
\* is among the failed ones: throttled <= failed, overall, per account and
\* per consumer.
C11_TotalIsSuccessfulPlusFailed ==
    main_pc = "done" /\ script \in {"cris", "sharding", "quota"} =>
        LET S == {i \in Workers : Succeeded(i)}
            F == {i \in Workers : Failed(i)}
            T == {i \in Workers : Throttled(i)}
            At(X, a) == {i \in X : SentTo(i) = a}
        IN /\ report.total = num_requests
           /\ report.successful = Cardinality(S)
           /\ report.failed = Cardinality(F)
           /\ report.total = report.successful + report.failed
           /\ T \subseteq F
           /\ script = "quota" =>
                /\ report.throttled = Cardinality(T)
                /\ report.throttled <= report.failed
           /\ script = "sharding" =>
                /\ report.primary_total =
                       report.primary_successful + report.primary_failed
                /\ report.secondary_total =
                       report.secondary_successful + report.secondary_failed
                /\ report.primary_total + report.secondary_total = report.total
                /\ report.primary_successful = Cardinality(At(S, "ACCOUNT1"))
                /\ report.primary_failed = Cardinality(At(F, "ACCOUNT1"))
                /\ report.secondary_successful = Cardinality(At(S, "ACCOUNT2"))
                /\ report.secondary_failed = Cardinality(At(F, "ACCOUNT2"))
                /\ report.primary_throttled = Cardinality(At(T, "ACCOUNT1"))
                /\ report.secondary_throttled = Cardinality(At(T, "ACCOUNT2"))
                /\ report.primary_throttled <= report.primary_failed
                /\ report.secondary_throttled <= report.secondary_failed

\* C11 witness: outcomes (success, throttled, success) of a cris batch are
\* reported as total 3, successful 2, failed 1.
C11_Witness ==
    /\ script = "cris" /\ main_pc = "done" /\ num_requests = 3
    /\ Succeeded(1) /\ Throttled(2) /\ Succeeded(3)
    /\ report.total = 3 /\ report.successful = 2 /\ report.failed = 1


(***************************************************************************)
(* Claims about the classification of a failed call (SpecSend).            *)
(***************************************************************************)
KnownSubstrings == {"ThrottlingException", "ServiceQuota", "ValidationException",
                    "AccessDenied", "ResourceNotFound"}

SendFailed == send_log # "none" /\ send_outcome.stage # "ok"

Max(a, b) == IF a > b THEN a ELSE b

Noted(b, l, res) ==
    [b EXCEPT ![l] = IF HasDistribution(res) THEN Max(@, TotalOf(res)) ELSE @]

InitPoll ==
    /\ IdleSend
    /\ IdleBatch
    /\ IdleMore
    /\ poll_script \in {"cris", "sharding"}
    /\ expected_count \in IF poll_script = "cris" THEN 0..MaxSucc ELSE {0}
    /\ primary_expected_count \in IF poll_script = "sharding" THEN 0..MaxSucc ELSE {0}
    /\ secondary_expected_count \in IF poll_script = "sharding" THEN 0..MaxSucc ELSE {0}
    /\ poll_pc = "start"
    /\ attempt = 0
    /\ cloudwatch_results = QueryNone
    /\ all_cloudwatch_results = NoCloudwatchResults
    /\ pending = {}
    /\ queries = [l \in Labels |-> 0]
    /\ best = [l \in Labels |-> 0 - 1]
    /\ slept = 0
    /\ shown = [l \in Labels |-> QueryNone]

\* mutant: the section is guarded by the number of calls dispatched
GuardCount_Dispatched ==
    IF poll_script = "cris" THEN expected_count + stats_failed
    ELSE primary_expected_count + secondary_expected_count + stats_failed

\* the number the section is guarded by: successful, total_successful
GuardCount ==
    IF poll_script = "cris" THEN expected_count
    ELSE primary_expected_count + secondary_expected_count

\* if successful > 0:  /  if total_successful > 0:
PollStart ==
    /\ poll_pc = "start"
    /\ poll_pc' = IF GuardCount > 0 THEN "sleep" ELSE "done"
    /\ UNCHANGED <<sendVars, batchVars, moreVars>>
    /\ UNCHANGED <<poll_script, expected_count, primary_expected_count,
                   secondary_expected_count, attempt, cloudwatch_results,
                   all_cloudwatch_results, pending, queries, best, slept, shown>>

\* time.sleep(wait_time) at the head of an attempt; the sharding script then
\* submits one query per account that had a success
WaitForLogs ==
    /\ poll_pc = "sleep"
    /\ slept' = slept + WaitTime(attempt)
    /\ pending' = IF poll_script = "sharding"
                  THEN {a \in Accounts : ExpectedOf(a) > 0} ELSE {}
    /\ poll_pc' = "query"
    /\ UNCHANGED <<sendVars, batchVars, moreVars>>
    /\ UNCHANGED <<poll_script, expected_count, primary_expected_count,
                   secondary_expected_count, attempt, cloudwatch_results,
                   all_cloudwatch_results, queries, best, shown>>

\* what a query of the account can return, over every environment
QueryResults ==
    [t \in {"absent"} \cup Accounts |->
        {query_cloudwatch_distribution(env, t) : env \in QueryEnvs}]

\* demo_cris.py: the assignment of the query's result res
CrisStore(res) ==
    /\ poll_script = "cris"
    /\ poll_pc = "query"
    /\ cloudwatch_results' = res
    /\ best' = Noted(best, "CRIS", res)
    /\ queries' = [queries EXCEPT !["CRIS"] = @ + 1]
    /\ poll_pc' = "check"
    /\ UNCHANGED <<poll_script, expected_count, primary_expected_count,
                   secondary_expected_count, attempt, all_cloudwatch_results,
                   pending, slept, shown>>

\* demo_cris.py: cloudwatch_results = query_cloudwatch_distribution(...)
CrisQuery(res) ==
    /\ CrisStore(res)
    /\ UNCHANGED <<sendVars, batchVars, moreVars>>

\* a completeness test that also takes an over-count
CrisComplete_AtLeast ==
    Truthy(cloudwatch_results) /\ TotalOf(cloudwatch_results) >= expected_count

\* demo_cris.py: the snapshot is complete
CrisComplete ==
    Truthy(cloudwatch_results) /\ TotalOf(cloudwatch_results) = expected_count

\* demo_cris.py: break when complete, else the next attempt if one is left
CrisCheck ==
    /\ poll_script = "cris"
    /\ poll_pc = "check"
    /\ IF CrisComplete
       THEN poll_pc' = "report" /\ UNCHANGED attempt
       ELSE IF LoopContinues(attempt)
       THEN poll_pc' = "sleep" /\ attempt' = attempt + 1
       ELSE poll_pc' = "report" /\ UNCHANGED attempt
    /\ UNCHANGED <<sendVars, batchVars, moreVars>>
    /\ UNCHANGED <<poll_script, expected_count, primary_expected_count,
                   secondary_expected_count, cloudwatch_results,
                   all_cloudwatch_results, pending, queries, best, slept, shown>>

\* demo_cris.py: the region table, or "CloudWatch analysis unavailable"
\* (shown stays None)
CrisReport ==
    /\ poll_script = "cris"
    /\ poll_pc = "report"
    /\ shown' = [shown EXCEPT !["CRIS"] =
                    IF HasDistribution(cloudwatch_results)
                    THEN cloudwatch_results ELSE QueryNone]
    /\ poll_pc' = "done"
    /\ UNCHANGED <<sendVars, batchVars, moreVars>>
    /\ UNCHANGED <<poll_script, expected_count, primary_expected_count,
                   secondary_expected_count, attempt, cloudwatch_results,
                   all_cloudwatch_results, pending, queries, best, slept>>

\* demo_account_sharding.py: the main thread collects the result res of
\* account a: kept only if it has a region distribution
ShardStore(a, res) ==
    /\ poll_script = "sharding"
    /\ poll_pc = "query"
    /\ a \in pending
    /\ all_cloudwatch_results' =
          IF HasDistribution(res)
          THEN [all_cloudwatch_results EXCEPT ![a] = res]
          ELSE all_cloudwatch_results
    /\ best' = Noted(best, a, res)
    /\ queries' = [queries EXCEPT ![a] = @ + 1]
    /\ pending' = pending \ {a}
    /\ poll_pc' = IF pending \ {a} = {} THEN "check" ELSE "query"
    /\ UNCHANGED <<poll_script, expected_count, primary_expected_count,
                   secondary_expected_count, attempt, cloudwatch_results,
                   slept, shown>>

\* demo_account_sharding.py: the query of account a completes and is collected
ShardQuery(a, res) ==
    /\ ShardStore(a, res)
    /\ UNCHANGED <<sendVars, batchVars, moreVars>>

\* got_primary, got_secondary
GotAccount(a) ==
    /\ HasKey(all_cloudwatch_results, a)
    /\ TotalOf(all_cloudwatch_results[a]) = ExpectedOf(a)

\* a break as soon as one expected account is complete
ShardComplete_Any ==
    \E a \in Accounts : ExpectedOf(a) > 0 /\ GotAccount(a)

\* (not expected_primary or got_primary) and (not expected_secondary or ...)
ShardComplete == \A a \in Accounts : ~(ExpectedOf(a) > 0) \/ GotAccount(a)

ShardCheck ==
    /\ poll_script = "sharding"
    /\ poll_pc = "check"
    /\ IF ShardComplete
       THEN poll_pc' = "report" /\ UNCHANGED attempt
       ELSE IF LoopContinues(attempt)
       THEN poll_pc' = "sleep" /\ attempt' = attempt + 1
       ELSE poll_pc' = "report" /\ UNCHANGED attempt
    /\ UNCHANGED <<sendVars, batchVars, moreVars>>
    /\ UNCHANGED <<poll_script, expected_count, primary_expected_count,
                   secondary_expected_count, cloudwatch_results,
                   all_cloudwatch_results, pending, queries, best, slept, shown>>

\* demo_account_sharding.py: one region table per account with a key, or
\* "CloudWatch analysis unavailable" when the dict is empty
ShardReport ==
    /\ poll_script = "sharding"
    /\ poll_pc = "report"
    /\ shown' = [l \in Labels |->
                    IF l \in Accounts THEN all_cloudwatch_results[l] ELSE QueryNone]
    /\ poll_pc' = "done"
    /\ UNCHANGED <<sendVars, batchVars, moreVars>>
    /\ UNCHANGED <<poll_script, expected_count, primary_expected_count,
                   secondary_expected_count, attempt, cloudwatch_results,
                   all_cloudwatch_results, pending, queries, best, slept>>

NextPoll ==
    \/ PollStart
    \/ WaitForLogs
    \/ \E res \in QueryResults["absent"] : CrisQuery(res)
    \/ CrisCheck
    \/ CrisReport
    \/ \E a \in Accounts : \E res \in QueryResults[a] : ShardQuery(a, res)
    \/ ShardCheck
    \/ ShardReport

SpecPoll == InitPoll /\ [][NextPoll]_vars


SpecPollFair == SpecPoll /\ WF_vars(NextPoll)

(***************************************************************************)
(* The poller's claims.  They are stated on the stored results themselves, *)
(* not on the scripts' completeness tests.                                 *)
(***************************************************************************)
\* the partitions the running script reconciles
Expected(l) ==
    IF poll_script = "cris" THEN (IF l = "CRIS" THEN expected_count ELSE 0)
    ELSE IF poll_script = "sharding" /\ l \in Accounts THEN ExpectedOf(l)
    ELSE 0

\* the snapshot the script holds for a partition when it tests completeness
Held(l) ==
    IF l = "CRIS" THEN cloudwatch_results ELSE all_cloudwatch_results[l]

HoldsSnapshot(l) == Expected(l) > 0 /\ Truthy(Held(l))

UnderCount(l) == HoldsSnapshot(l) /\ TotalOf(Held(l)) < Expected(l)

ExactCount(l) == HoldsSnapshot(l) /\ TotalOf(Held(l)) = Expected(l)

AllExact == \A l \in Labels : Expected(l) > 0 => ExactCount(l)

AttemptsRemain == attempt + 1 < 5

LoopStops == poll_pc = "check" /\ poll_pc' = "report"

NextAttempt == poll_pc = "check" /\ poll_pc' = "sleep" /\ attempt' = attempt + 1

\* C3 as stated: in the poller, an under-count snapshot of any partition is
\* not accepted while attempts remain (the next attempt follows), and an
\* exact snapshot of a partition stops the loop at once, with no query after.
C3_Original ==
    [][/\ (poll_pc = "check" /\ AttemptsRemain /\ (\E l \in Labels : UnderCount(l)))
            => NextAttempt
       /\ (poll_pc = "check" /\ (\E l \in Labels : ExactCount(l))) => LoopStops
       /\ poll_pc \in {"report", "done"} => queries' = queries]_vars

\* C3 amended: an under-count snapshot of any partition is not accepted while
\* attempts remain (the next attempt follows); the loop stops at once, with
\* no query after, when every partition that had successes holds an exact
\* snapshot -- in the one-partition script when its snapshot is exact -- and
\* with attempts remaining it stops in no other case.
C3_AcceptOnlyWhenAllExact ==
    [][/\ (poll_pc = "check" /\ AttemptsRemain /\ (\E l \in Labels : UnderCount(l)))
            => NextAttempt
       /\ (poll_pc = "check" /\ AllExact) => LoopStops
       /\ (LoopStops /\ AttemptsRemain) => AllExact
       /\ poll_pc \in {"report", "done"} => queries' = queries]_vars

\* an exact snapshot stopped the one-partition loop before the last attempt;
\* an under-count sent the loop on
C3_Witness ==
    /\ poll_script = "cris"
    /\ poll_pc = "done"
    /\ attempt = 1
    /\ ExactCount("CRIS")
    /\ queries["CRIS"] = 2
    /\ best["CRIS"] = expected_count

\* one account exact, the other under-count: the loop went on
C3_WitnessTwoAccounts ==
    /\ poll_script = "sharding"
    /\ poll_pc = "sleep"
    /\ attempt = 1
    /\ ExactCount("ACCOUNT1")
    /\ UnderCount("ACCOUNT2")

AttemptBudget ==
    /\ attempt < 5
    /\ \A l \in Labels : queries[l] <= 5
    /\ slept <= 60 + 4 * 30
    /\ poll_pc \in {"report", "done"} => \A l \in Labels : queries[l] <= attempt + 1

\* C4: whatever the queries return, the poller makes at most 5 attempts (at
\* most 5 queries per partition) and then reaches the report and ends.
C4_AtMostFiveAttemptsThenReport ==
    /\ []AttemptBudget
    /\ <>(poll_pc = "done")

\* the budget ran out without an exact snapshot and the poller ended
C4_Witness ==
    /\ poll_pc = "done"
    /\ attempt = 4
    /\ ~AllExact
    /\ \E l \in Labels : queries[l] = 5
    /\ slept = 60 + 4 * 30

C6_BestSnapshotReported ==
    (poll_pc = "done" /\ attempt = 4 /\ ~AllExact) =>
        \A l \in Labels :
            best[l] >= 0 =>
                /\ HasDistribution(shown[l])
                /\ TotalOf(shown[l]) >= best[l]


(***************************************************************************)
(* SpecAssign: the account the sharding worker chooses for request req_id  *)
(* of a batch of assign_n; workers run in any order, any number of times.  *)
(***************************************************************************)
InitAssign ==
    /\ IdleSend
    /\ IdleBatch
    /\ IdlePoll
    /\ assign_n \in 1..MaxAssignN
    /\ assign_strategy \in Strategies
    /\ assign_index = 0 - 1
    /\ assign_account = "none"
    /\ IdleNotAssign

\* worker(req_id): use_primary and account_type
AssignWorker(req_id, coin) ==
    /\ assign_strategy = "random" \/ coin
    /\ assign_index' = req_id
    /\ assign_account' =
          AccountType(UsePrimary(assign_strategy, req_id, assign_n, coin))
    /\ UNCHANGED <<assign_n, assign_strategy>>
    /\ UNCHANGED <<sendVars, batchVars, pollVars, notAssignVars>>

NextAssign ==
    \E req_id \in 0..(assign_n - 1) : \E coin \in BOOLEAN :
        AssignWorker(req_id, coin)

SpecAssign == InitAssign /\ [][NextAssign]_vars

\* C12: under split request i of N goes to ACCOUNT1 iff i is in the first
\* N div 2 indices (2(i+1) <= N), so for N = 20 indices 0..9 go to ACCOUNT1
\* and 10..19 to ACCOUNT2; under round-robin iff i is even; whichever
\* worker ran before, the account of i is the same.
C12_PartitionOfIndex ==
    assign_index >= 0 =>
        /\ assign_account \in Accounts
        /\ assign_strategy = "split" =>
              (assign_account = "ACCOUNT1" <=> 2 * (assign_index + 1) <= assign_n)
        /\ (assign_strategy = "split" /\ assign_n = 20) =>
              (assign_account = "ACCOUNT1" <=> assign_index \in 0..9)
        /\ assign_strategy = "round-robin" =>
              (assign_account = "ACCOUNT1" <=>
                  \E k \in 0..assign_n : assign_index = 2 * k)

\* C12 witness: index 10 of a split batch of 20 went to ACCOUNT2
C12_Witness ==
    /\ assign_strategy = "split" /\ assign_n = 20
    /\ assign_index = 10 /\ assign_account = "ACCOUNT2"


(***************************************************************************)
(* SpecPool: how many probe calls of a batch of pool_n are in flight, for  *)
(* the two scripts whose batch size is the --requests flag.  Workers are   *)
(* counted, not told apart.                                                *)
(***************************************************************************)
InitPool ==
    /\ IdleSend
    /\ IdleBatch
    /\ IdlePoll
    /\ IdleNotPool
    /\ pool_script \in {"sharding", "cris"}
    /\ pool_n \in 1..MaxPoolN
    /\ pool_submitted = 0
    /\ pool_active = 0
    /\ pool_done = 0

\* work items submitted and not yet taken by a pool thread
PoolQueued == pool_submitted - pool_active - pool_done

\* executor.submit(worker, i)
PoolSubmit ==
    /\ pool_submitted < pool_n
    /\ pool_submitted' = pool_submitted + 1
    /\ UNCHANGED <<pool_script, pool_n, pool_active, pool_done>>
    /\ UNCHANGED <<sendVars, batchVars, pollVars, notPoolVars>>

\* a pool thread takes a work item: the executor runs at most max_workers
PoolStart ==
    /\ PoolQueued > 0
    /\ pool_active < MaxWorkers(pool_script, pool_n)
    /\ pool_active' = pool_active + 1
    /\ UNCHANGED <<pool_script, pool_n, pool_submitted, pool_done>>
    /\ UNCHANGED <<sendVars, batchVars, pollVars, notPoolVars>>

\* a worker returns
PoolFinish ==
    /\ pool_active > 0
    /\ pool_active' = pool_active - 1
    /\ pool_done' = pool_done + 1
    /\ UNCHANGED <<pool_script, pool_n, pool_submitted>>
    /\ UNCHANGED <<sendVars, batchVars, pollVars, notPoolVars>>

NextPool == PoolSubmit \/ PoolStart \/ PoolFinish

SpecPool == InitPool /\ [][NextPool]_vars

\* C13 as stated: at every moment the number of in-flight probe calls is at
\* most min(N, 20), in the sharding script and in the cris script.
C13_InFlightAtMostCeiling ==
    pool_active <= (IF pool_n < 20 THEN pool_n ELSE 20)

\* the part of C13 that holds: the sharding pool never exceeds min(N, 20)
\* calls in flight, and no pool exceeds N
C13_ShardingInFlightAtMostCeiling ==
    /\ pool_active <= pool_n
    /\ pool_script = "sharding" =>
          pool_active <= (IF pool_n < 20 THEN pool_n ELSE 20)

\* the sharding pool is full at the ceiling with work still queued
C13_WitnessSharding ==
    /\ pool_script = "sharding" /\ pool_n = 22
    /\ pool_active = 20 /\ PoolQueued = 2


(***************************************************************************)
(* SpecMain: a script from its parsed flags to its exit or to the dispatch *)
(* of its batch: main() of demo_cris.py, demo_account_sharding.py and      *)
(* demo_load_balancing.py, and the credential verification at the head of  *)
(* run_cross_account_demo.  argparse has already turned the flags into     *)
(* integers.                                                               *)
(***************************************************************************)
RequestFlags == {0 - 1, 0, 1, 20, 100, 101}

IntervalFlags == {0, 4, 5, 30}

\* what sts get_caller_identity does for a profile: an account id, or raise
IdentityOutcomes == {"111111111111", "222222222222", "raise"}

\* verify_aws_credentials: the account id, or None when anything raised
verify_aws_credentials(o) == IF o = "raise" THEN "None" ELSE o

\* mutant: one verified account is enough
CredentialsVerified_Either(primary, secondary) ==
    primary # "None" \/ secondary # "None"

\* if not primary_account or not secondary_account: ... sys.exit(1)
CredentialsVerified(primary, secondary) ==
    primary # "None" /\ secondary # "None"

\* mutant: no upper limit
RequestsError_NoUpper(n) ==
    IF n < 1 THEN "at least 1" ELSE "none"

\* the two range tests of main(): the message printed, or none
RequestsError(n) ==
    IF n < 1 THEN "at least 1"
    ELSE IF n > MaxRequests THEN "Maximum 100"
    ELSE "none"

\* if args.loop: if args.interval < 5: ...
IntervalError(loop, interval) ==
    IF loop /\ interval < MinInterval THEN "Minimum interval" ELSE "none"

InitMain ==
    /\ IdleSend
    /\ IdleBatch
    /\ IdlePoll
    /\ IdleNotCli
    /\ cli_script \in {"cris", "sharding", "loadbalance"}
    /\ cli_requests \in IF cli_script = "loadbalance" THEN {0} ELSE RequestFlags
    /\ cli_loop \in IF cli_script = "loadbalance" THEN BOOLEAN ELSE {FALSE}
    /\ cli_interval \in IF cli_script = "loadbalance" THEN IntervalFlags ELSE {0}
    /\ cli_pc = "parsed"
    /\ primary_account = "unset"
    /\ secondary_account = "unset"
    /\ exit_status = 0 - 1
    /\ printed = "none"
    /\ dispatched = 0

\* main() of demo_cris.py and demo_account_sharding.py after parse_args
ValidateRequests ==
    /\ cli_pc = "parsed"
    /\ cli_script \in {"cris", "sharding"}
    /\ LET err == RequestsError(cli_requests)
       IN IF err # "none"
          THEN /\ printed' = err
               /\ exit_status' = 1
               /\ cli_pc' = "exited"
          ELSE /\ cli_pc' = IF cli_script = "sharding" THEN "verify1" ELSE "dispatch"
               /\ UNCHANGED <<printed, exit_status>>
    /\ UNCHANGED <<cli_script, cli_requests, cli_loop, cli_interval,
                   primary_account, secondary_account, dispatched>>
    /\ UNCHANGED <<sendVars, batchVars, pollVars, notCliVars>>

\* main() of demo_load_balancing.py after parse_args
ValidateInterval ==
    /\ cli_pc = "parsed"
    /\ cli_script = "loadbalance"
    /\ LET err == IntervalError(cli_loop, cli_interval)
       IN IF err # "none"
          THEN /\ printed' = err
               /\ exit_status' = 1
               /\ cli_pc' = "exited"
          ELSE /\ cli_pc' = "dispatch"
               /\ UNCHANGED <<printed, exit_status>>
    /\ UNCHANGED <<cli_script, cli_requests, cli_loop, cli_interval,
                   primary_account, secondary_account, dispatched>>
    /\ UNCHANGED <<sendVars, batchVars, pollVars, notCliVars>>

\* primary_account = verify_aws_credentials(primary_profile, "ACCOUNT1")
VerifyPrimary(o) ==
    /\ cli_pc = "verify1"
    /\ primary_account' = verify_aws_credentials(o)
    /\ cli_pc' = "verify2"
    /\ UNCHANGED <<cli_script, cli_requests, cli_loop, cli_interval,
                   secondary_account, exit_status, printed, dispatched>>
    /\ UNCHANGED <<sendVars, batchVars, pollVars, notCliVars>>

\* secondary_account = verify_aws_credentials(secondary_profile, "ACCOUNT2")
VerifySecondary(o) ==
    /\ cli_pc = "verify2"
    /\ secondary_account' = verify_aws_credentials(o)
    /\ cli_pc' = "verified"
    /\ UNCHANGED <<cli_script, cli_requests, cli_loop, cli_interval,
                   primary_account, exit_status, printed, dispatched>>
    /\ UNCHANGED <<sendVars, batchVars, pollVars, notCliVars>>

\* the test of the two account ids: sys.exit(1), or on to the batch
CheckCredentials ==
    /\ cli_pc = "verified"
    /\ IF CredentialsVerified(primary_account, secondary_account)
       THEN /\ cli_pc' = "dispatch"
            /\ UNCHANGED <<printed, exit_status>>
       ELSE /\ printed' = "Failed to verify"
            /\ exit_status' = 1
            /\ cli_pc' = "exited"
    /\ UNCHANGED <<cli_script, cli_requests, cli_loop, cli_interval,
                   primary_account, secondary_account, dispatched>>
    /\ UNCHANGED <<sendVars, batchVars, pollVars, notCliVars>>

\* the batch is submitted: num_requests calls, or one per question
Dispatch ==
    /\ cli_pc = "dispatch"
    /\ dispatched' = IF cli_script = "loadbalance" THEN NumQuestions ELSE cli_requests
    /\ cli_pc' = "running"
    /\ UNCHANGED <<cli_script, cli_requests, cli_loop, cli_interval,
                   primary_account, secondary_account, exit_status, printed>>
    /\ UNCHANGED <<sendVars, batchVars, pollVars, notCliVars>>

NextMain ==
    \/ ValidateRequests
    \/ ValidateInterval
    \/ \E o \in IdentityOutcomes : VerifyPrimary(o)
    \/ \E o \in IdentityOutcomes : VerifySecondary(o)
    \/ CheckCredentials
    \/ Dispatch

SpecMain == InitMain /\ [][NextMain]_vars

\* the script has left its start: it exited or its batch is out
Started == cli_pc \in {"exited", "running"}

\* C14: in the account-sharding script requests are dispatched only after
\* both verifications returned an account id; if either failed, the process
\* exits with status 1 and no call is dispatched, now or later.
C14_NoDispatchWithoutBothAccounts ==
    cli_script = "sharding" =>
        /\ dispatched > 0 =>
              /\ primary_account \in {"111111111111", "222222222222"}
              /\ secondary_account \in {"111111111111", "222222222222"}
        /\ (primary_account = "None" \/ secondary_account = "None") =>
              /\ dispatched = 0
              /\ cli_pc \in {"verify2", "verified", "exited"}
              /\ cli_pc = "exited" => exit_status = 1

\* C14 witness: the primary profile verified, the secondary did not, and the
\* process exited with status 1 without a call
C14_Witness ==
    /\ cli_script = "sharding" /\ cli_pc = "exited"
    /\ primary_account = "111111111111" /\ secondary_account = "None"
    /\ exit_status = 1 /\ dispatched = 0 /\ printed = "Failed to verify"

\* C18: a request count below 1 or above 100, or in loop mode an interval
\* below 5, ends the script with a message and status 1 and no call is
\* dispatched; a batch of N requests is dispatched only with 1 <= N <= 100.
C18_InvalidFlagsRejected ==
    LET bad_requests == cli_script \in {"cris", "sharding"}
                          /\ (cli_requests < 1 \/ cli_requests > 100)
        bad_interval == cli_script = "loadbalance" /\ cli_loop /\ cli_interval < 5
    IN /\ (bad_requests \/ bad_interval) =>
            /\ dispatched = 0
            /\ cli_pc \in {"parsed", "exited"}
            /\ cli_pc = "exited" => exit_status = 1 /\ printed # "none"
       /\ (dispatched > 0 /\ cli_script \in {"cris", "sharding"}) =>
            /\ 1 <= cli_requests /\ cli_requests <= 100
            /\ dispatched = cli_requests

\* C18 witness: --requests 101 was refused with status 1
C18_Witness ==
    /\ cli_script = "cris" /\ cli_requests = 101
    /\ cli_pc = "exited" /\ exit_status = 1
    /\ printed = "Maximum 100" /\ dispatched = 0

\* C18 witness: --loop --interval 4 was refused with status 1
C18_WitnessInterval ==
    /\ cli_script = "loadbalance" /\ cli_loop /\ cli_interval = 4
    /\ cli_pc = "exited" /\ exit_status = 1 /\ dispatched = 0


(***************************************************************************)
(* SpecQuery: the CloudWatch section with every log query taken step by    *)
(* step (credentials test, start_query, status polls, get_query_results),  *)
(* between the statistics computed before it and the dict returned after   *)
(* it.  The two queries of one sharding attempt are taken one after the    *)
(* other, in either order: they share nothing.  q_status, q_fetched and    *)
(* q_cause are history of the latest query entered: the last status        *)
(* observed, the number of get_query_results calls, how it ended.          *)
(***************************************************************************)
OkRecord(id, account_type) ==
    send_bedrock_request(id, ModelId, account_type, OkOutcome(100, ModelId))

FailedRecord(id, account_type) ==
    send_bedrock_request(id, ModelId, account_type,
        RaiseOutcome("call", "ClientError", <<"ThrottlingException">>))

\* a results list with s1 successes of the first account (of the one
\* partition of demo_cris.py), s2 of the second account and f failures
BatchOf(scr, s1, s2, f) ==
    LET a1 == IF scr = "cris" THEN "absent" ELSE "ACCOUNT1"
    IN [k \in 1..(s1 + s2 + f) |->
           IF k <= s1 THEN OkRecord(k, a1)
           ELSE IF k <= s1 + s2 THEN OkRecord(k, "ACCOUNT2")
           ELSE FailedRecord(k, a1)]

\* mutant: successful is replaced by the number of invocations the logs show
ReturnedStats_Reconciled(st) ==
    [total_requests |-> st.total,
     successful |-> TotalOf(cloudwatch_results)
                      + TotalOf(all_cloudwatch_results["ACCOUNT1"])
                      + TotalOf(all_cloudwatch_results["ACCOUNT2"]),
     failed |-> st.failed, success_rate |-> st.success_rate]

\* the client-observed part of the dict the analysis returns
ReturnedStats(st) ==
    [total_requests |-> st.total, successful |-> st.successful,
     failed |-> st.failed, success_rate |-> st.success_rate]

InitQuery ==
    /\ IdleSend
    /\ IdleBatch
    /\ IdleNotQuery
    /\ poll_script \in {"cris", "sharding"}
    /\ expected_count \in IF poll_script = "cris" THEN 0..MaxSucc ELSE {0}
    /\ primary_expected_count \in IF poll_script = "sharding" THEN 0..MaxSucc ELSE {0}
    /\ secondary_expected_count \in IF poll_script = "sharding" THEN 0..MaxSucc ELSE {0}
    /\ poll_pc = "start"
    /\ attempt = 0
    /\ cloudwatch_results = QueryNone
    /\ all_cloudwatch_results = NoCloudwatchResults
    /\ pending = {}
    /\ queries = [l \in Labels |-> 0]
    /\ best = [l \in Labels |-> 0 - 1]
    /\ slept = 0
    /\ shown = [l \in Labels |-> QueryNone]
    /\ q_pc = "idle"
    /\ q_label = "none"
    /\ q_elapsed = 0
    /\ q_status = "none"
    /\ q_fetched = 0
    /\ q_cause = "none"
    /\ stats_failed \in 0..MaxFailed
    /\ stats = Analysis(poll_script,
                  BatchOf(poll_script, expected_count + primary_expected_count,
                          secondary_expected_count, stats_failed))
    /\ returned = <<>>

\* the query of partition l is entered
QueryBegin(l) ==
    /\ poll_pc = "query"
    /\ q_pc = "idle"
    /\ IF poll_script = "cris" THEN l = "CRIS" ELSE l \in pending
    /\ q_label' = l
    /\ q_pc' = "creds"
    /\ q_elapsed' = 0
    /\ q_status' = "none"
    /\ q_fetched' = 0
    /\ q_cause' = "none"
    /\ UNCHANGED <<stats_failed, stats, returned>>
    /\ UNCHANGED <<sendVars, batchVars, pollVars, notQueryVars>>

\* the query function returns res: the poller stores it
QueryEnds(res, cause) ==
    /\ IF q_label = "CRIS" THEN CrisStore(res) ELSE ShardStore(q_label, res)
    /\ q_pc' = "idle"
    /\ q_cause' = cause
    /\ UNCHANGED <<q_label, q_elapsed, q_fetched, stats_failed, stats, returned>>
    /\ UNCHANGED <<sendVars, batchVars, notQueryVars>>

\* the query function goes on to its next step
QueryGoes(pc) ==
    /\ q_pc' = pc
    /\ UNCHANGED <<q_label, q_fetched, q_cause, stats_failed, stats, returned>>
    /\ UNCHANGED <<sendVars, batchVars, pollVars, notQueryVars>>

\* logs_client.describe_log_groups(limit=1), and the session before it
QueryCreds(ok) ==
    /\ q_pc = "creds"
    /\ IF ok THEN QueryGoes("start") /\ UNCHANGED <<q_elapsed, q_status>>
       ELSE QueryEnds(QueryNone, "creds") /\ UNCHANGED q_status

\* start_cloudwatch_query: a query id, or None
QueryStart(ok) ==
    /\ q_pc = "start"
    /\ IF ok THEN QueryGoes("wait") /\ UNCHANGED <<q_elapsed, q_status>>
       ELSE QueryEnds(QueryNone, "start") /\ UNCHANGED q_status

\* time.sleep(2) after a poll that saw the query still running; from the
\* MaxRunning-th such poll on the query stays running for the rest of the
\* timeout
Slept(elapsed) ==
    IF elapsed + StatusPollSleep < MaxRunning * StatusPollSleep + 1
    THEN elapsed + StatusPollSleep
    ELSE QueryTimeout

\* while time.time() - start_time < timeout_seconds  is false
QueryTimesOut ==
    /\ q_pc = "wait"
    /\ ~(q_elapsed < QueryTimeout)
    /\ QueryEnds(QueryNone, "timeout")
    /\ UNCHANGED q_status

\* mutant: a failed query is read like a complete one
QueryPoll_FetchOnFailed(status) ==
    /\ q_pc = "wait"
    /\ q_elapsed < QueryTimeout
    /\ q_status' = status
    /\ IF status \in {"Complete", "Failed"} THEN QueryGoes("fetch") /\ UNCHANGED q_elapsed
       ELSE IF status \in {"NotFound", "Exception", "Cancelled"}
       THEN QueryEnds(QueryNone, "status")
       ELSE QueryGoes("wait") /\ q_elapsed' = Slept(q_elapsed)

\* one iteration of the loop of wait_for_query_completion
QueryPoll(status) ==
    /\ q_pc = "wait"
    /\ q_elapsed < QueryTimeout
    /\ q_status' = status
    /\ IF status = "Complete" THEN QueryGoes("fetch") /\ UNCHANGED q_elapsed
       ELSE IF status \in {"NotFound", "Exception", "Failed", "Cancelled"}
       THEN QueryEnds(QueryNone, "status")
       ELSE QueryGoes("wait") /\ q_elapsed' = Slept(q_elapsed)

\* return get_cloudwatch_results(logs_client, query_id)
QueryFetch(response) ==
    /\ q_pc = "fetch"
    /\ q_fetched' = q_fetched + 1
    /\ q_pc' = "idle"
    /\ q_cause' = "fetched"
    /\ LET res == get_cloudwatch_results(response,
                      IF q_label = "CRIS" THEN "absent" ELSE q_label)
       IN IF q_label = "CRIS" THEN CrisStore(res) ELSE ShardStore(q_label, res)
    /\ UNCHANGED <<q_label, q_elapsed, q_status, stats_failed, stats, returned>>
    /\ UNCHANGED <<sendVars, batchVars, notQueryVars>>

\* return {"total_requests": total, "successful": ..., ...}
ReturnStats ==
    /\ poll_pc = "done"
    /\ poll_pc' = "returned"
    /\ returned' = ReturnedStats(stats)
    /\ UNCHANGED <<q_pc, q_label, q_elapsed, q_status, q_fetched, q_cause,
                   stats_failed, stats>>
    /\ UNCHANGED <<poll_script, expected_count, primary_expected_count,
                   secondary_expected_count, attempt, cloudwatch_results,
                   all_cloudwatch_results, pending, queries, best, slept, shown>>
    /\ UNCHANGED <<sendVars, batchVars, notQueryVars>>

NextQuery ==
    \/ PollStart
    \/ WaitForLogs
    \/ \E l \in Labels : QueryBegin(l)
    \/ \E ok \in BOOLEAN : QueryCreds(ok)
    \/ \E ok \in BOOLEAN : QueryStart(ok)
    \/ QueryTimesOut
    \/ \E status \in Thens : QueryPoll(status)
    \/ \E response \in Responses : QueryFetch(response)
    \/ CrisCheck
    \/ CrisReport
    \/ ShardCheck
    \/ ShardReport
    \/ ReturnStats

SpecQuery == InitQuery /\ [][NextQuery]_vars


(***************************************************************************)
(* Claims about one log query and the poller around it (SpecQuery).        *)
(***************************************************************************)

\* the statuses that abort a query: Failed, Cancelled, query id not found
Aborting == {"Failed", "Cancelled", "NotFound"}

\* get_query_results is called in this step
Fetches == q_fetched' > q_fetched

\* a status poll of this step observes an aborting status
ObservesAbort == q_pc = "wait" /\ q_elapsed < QueryTimeout /\ q_status' \in Aborting

\* the query ends in this step with nothing for the poller to hold
EndsWithNoResults ==
    /\ q_pc' = "idle"
    /\ q_fetched' = 0
    /\ cloudwatch_results' = QueryNone
    /\ all_cloudwatch_results' = all_cloudwatch_results
    /\ poll_pc' \in {"query", "check"}

\* the poller tests completeness after a query that an aborting status ended
AfterAbort == poll_pc = "check" /\ q_cause = "status" /\ q_status \in Aborting

C16_WitnessStale ==
    /\ AfterAbort
    /\ AttemptsRemain
    /\ poll_script = "sharding"
    /\ q_label = "ACCOUNT1"
    /\ AllExact


\* the statistics of a batch with S successes and F failures, as the client
\* saw them
ClientStats(S, F) ==
    [total_requests |-> S + F, successful |-> S, failed |-> F,
     success_rate |-> IF S + F = 0 THEN Zero ELSE Frac(100 * S, S + F)]

\* C15: whatever the reconciliation poller experiences (no credentials, a
\* query that does not start, fails, is cancelled, is not found or times
\* out, empty or under-count snapshots on every attempt), the analysis
\* always has a next step until it returns, and the total, successful,
\* failed and success rate it returns are those of the calls of the batch
\* alone, hence the same as with a complete reconciliation.
C15_StatsRegardlessOfPoller ==
    /\ poll_pc # "returned" => ENABLED NextQuery
    /\ poll_pc = "returned" => returned = ClientStats(GuardCount, stats_failed)

\* the analysis returned after five attempts, the last query timed out and
\* no snapshot was ever held
C15_Witness ==
    /\ poll_pc = "returned"
    /\ poll_script = "cris"
    /\ attempt = MaxAttempts - 1
    /\ q_cause = "timeout"
    /\ best["CRIS"] < 0
    /\ expected_count = 2
    /\ stats_failed = 1

\* the analysis returned after five attempts that all left ACCOUNT1 under
\* its expected count
C15_WitnessUnderCount ==
    /\ poll_pc = "returned"
    /\ poll_script = "sharding"
    /\ attempt = MaxAttempts - 1
    /\ UnderCount("ACCOUNT1")
    /\ queries["ACCOUNT1"] = MaxAttempts


(***************************************************************************)
(* SpecLoop: run_loop_mode of demo_load_balancing.py and                   *)
(* demo_quota_isolation.py.  SIGINT runs signal_handler in the main        *)
(* thread between any two steps; a sleep it interrupts goes on to its end. *)
(* sig_pc, sig_runs and sig_sleeps are history: where the loop was when    *)
(* the flag was set, the runs started by then, the sleeps ended since.     *)
(***************************************************************************)
LoopScripts == {"loadbalance", "quota"}

\* --interval as main lets it through
LoopIntervals == {i \in IntervalFlags : IntervalError(TRUE, i) = "none"}

\* consumer_cumulative_stats, a defaultdict: a consumer without a key
\* stands at the default's zeros
NoConsumerTotals ==
    [c \in ConsumerIds |-> [successful |-> 0, failed |-> 0, rate_limited |-> 0]]

NoTotals ==
    [total_successful |-> 0, total_failed |-> 0, total_runs |-> 0,
     effective_isolation_runs |-> 0,
     consumer_cumulative_stats |-> NoConsumerTotals]

NotPrinted == [total_runs |-> 0 - 1, rate |-> NotShown]

\* the line printed as "N/A"
NotAvailable == <<"N/A">>

\* how the requests of one run end: each consumer (demo_load_balancing.py:
\* the batch, under "A") has no failed request or MaxRunFailed of them, all
\* failing with the same exception; the other requests are answered
RunOutcomes ==
    [failed : [ConsumerIds -> {0, MaxRunFailed}],
     exc : {"RateLimitError", "APIError"}]

\* the outcome of request k of a run in which the first f requests fail
RunOutcomeOf(k, f, exc) ==
    IF k <= f THEN RaiseOutcome("call", exc, <<"timeout">>)
    ELSE OkOutcome(100, PrimaryModel)

\* run_consumer_workload: the results list of one consumer
run_consumer_workload(cid, f, exc) ==
    [k \in 1..ConsumerRequests |->
        send_consumer_request(cid, k, RunOutcomeOf(k, f, exc))]

\* a rate as a percentage is at least n
AtLeast(rate, n) == rate[1] >= n * rate[2]

\* demo_quota_isolation: consumer_stats and isolation_effective
demo_quota_isolation(o) ==
    LET consumer_stats ==
            [c \in ConsumerIds |->
                analyze_and_display_results(
                    run_consumer_workload(c, o.failed[c], o.exc))]
    IN [successful_requests |-> 0, failed_requests |-> 0,
        consumer_stats |-> consumer_stats,
        isolation_effective |->
            /\ AtLeast(consumer_stats["B"].success_rate, 80)
            /\ AtLeast(consumer_stats["C"].success_rate, 80)]

\* demo_load_balancing: one result per question, and the dict returned
LoadBalancingRun(o) ==
    LET rs == [k \in 1..NumQuestions |->
                  send_request(k, RunOutcomeOf(k, o.failed["A"], o.exc))]
        rep == demo_load_balancing(rs)
    IN [successful_requests |-> rep.successful, failed_requests |-> rep.failed,
        consumer_stats |-> [c \in ConsumerIds |-> NoReport],
        isolation_effective |-> FALSE]

\* what a run of demo_load_balancing.py can return
LoadBalancingRuns ==
    {LoadBalancingRun(o) :
        o \in {x \in RunOutcomes : x.failed["B"] = 0 /\ x.failed["C"] = 0}}

\* what a run of demo_quota_isolation.py can return
QuotaRuns == {demo_quota_isolation(o) : o \in RunOutcomes}

\* what one demo run of the script can return
RunResults == IF loop_script = "loadbalance" THEN LoadBalancingRuns ELSE QuotaRuns

\* mutant: the failed requests of a run are not added
Accumulate_NoFailed(scr, ts, res) ==
    IF scr = "loadbalance"
    THEN [ts EXCEPT !.total_successful = @ + res.successful_requests,
                    !.total_runs = @ + 1]
    ELSE [ts EXCEPT !.total_runs = @ + 1,
                    !.effective_isolation_runs =
                        IF res.isolation_effective THEN @ + 1 ELSE @,
                    !.consumer_cumulative_stats =
                        [c \in ConsumerIds |->
                            [successful |-> @[c].successful
                                              + res.consumer_stats[c].successful,
                             failed |-> @[c].failed,
                             rate_limited |-> @[c].rate_limited
                                              + res.consumer_stats[c].throttled]]]

\* total_stats[...] += ... after a run
Accumulate(scr, ts, res) ==
    IF scr = "loadbalance"
    THEN [ts EXCEPT !.total_successful = @ + res.successful_requests,
                    !.total_failed = @ + res.failed_requests,
                    !.total_runs = @ + 1]
    ELSE [ts EXCEPT !.total_runs = @ + 1,
                    !.effective_isolation_runs =
                        IF res.isolation_effective THEN @ + 1 ELSE @,
                    !.consumer_cumulative_stats =
                        [c \in ConsumerIds |->
                            [successful |-> @[c].successful
                                              + res.consumer_stats[c].successful,
                             failed |-> @[c].failed + res.consumer_stats[c].failed,
                             rate_limited |-> @[c].rate_limited
                                              + res.consumer_stats[c].throttled]]]

\* mutant: the final rate is computed whatever the totals are
FinalStatistics_Unguarded(scr, ts) ==
    [total_runs |-> ts.total_runs,
     rate |-> IF scr = "loadbalance"
              THEN Div(ts.total_successful * 100,
                       ts.total_successful + ts.total_failed)
              ELSE Div(ts.effective_isolation_runs * 100, ts.total_runs)]

\* FINAL STATISTICS: the runs completed and the success rate ("N/A" without
\* a request), or the isolation rate (0 without a run)
FinalStatistics(scr, ts) ==
    [total_runs |-> ts.total_runs,
     rate |-> IF scr = "loadbalance"
              THEN IF ts.total_successful + ts.total_failed > 0
                   THEN Div(ts.total_successful * 100,
                            ts.total_successful + ts.total_failed)
                   ELSE NotAvailable
              ELSE IF ts.total_runs > 0
                   THEN Div(ts.effective_isolation_runs * 100, ts.total_runs)
                   ELSE Zero]

InitLoop ==
    /\ IdleSend
    /\ IdleBatch
    /\ IdlePoll
    /\ IdleNotLoop
    /\ loop_script \in LoopScripts
    /\ interval_seconds \in LoopIntervals
    /\ loop_pc = "while"
    /\ shutdown_requested = FALSE
    /\ run_count = 0
    /\ total_stats = NoTotals
    /\ ticks_left = 0
    /\ final_printed = NotPrinted
    /\ sig_pc = "none"
    /\ sig_runs = 0
    /\ sig_sleeps = 0

LoopFrame == UNCHANGED <<sendVars, batchVars, pollVars, notLoopVars>>

\* signal_handler: the first SIGINT sets the flag
Signal ==
    /\ loop_pc # "exited"
    /\ ~shutdown_requested
    /\ shutdown_requested' = TRUE
    /\ sig_pc' = loop_pc
    /\ sig_runs' = run_count
    /\ sig_sleeps' = 0
    /\ UNCHANGED <<loop_script, loop_pc, interval_seconds, run_count, total_stats,
                   ticks_left, final_printed>>
    /\ LoopFrame

\* while not shutdown_requested: run_count += 1
LoopTest ==
    /\ loop_pc = "while"
    /\ IF shutdown_requested
       THEN loop_pc' = "final" /\ UNCHANGED run_count
       ELSE /\ run_count < MaxRuns
            /\ run_count' = run_count + 1
            /\ loop_pc' = "run"
    /\ UNCHANGED <<loop_script, interval_seconds, shutdown_requested, total_stats,
                   ticks_left, final_printed, sig_pc, sig_runs, sig_sleeps>>
    /\ LoopFrame

\* results = demo_...(run_number=run_count), and the cumulative statistics
RunDemo(res) ==
    /\ loop_pc = "run"
    /\ total_stats' = Accumulate(loop_script, total_stats, res)
    /\ loop_pc' = "ifwait"
    /\ UNCHANGED <<loop_script, interval_seconds, shutdown_requested, run_count,
                   ticks_left, final_printed, sig_pc, sig_runs, sig_sleeps>>
    /\ LoopFrame

\* mutant: the wait is entered whatever the flag says
EnterWait_NoSkip ==
    /\ loop_pc = "ifwait"
    /\ loop_pc' = "tick"
    /\ ticks_left' = interval_seconds
    /\ UNCHANGED <<loop_script, interval_seconds, shutdown_requested, run_count,
                   total_stats, final_printed, sig_pc, sig_runs, sig_sleeps>>
    /\ LoopFrame

\* if not shutdown_requested: for _ in range(interval_seconds)
EnterWait ==
    /\ loop_pc = "ifwait"
    /\ IF shutdown_requested
       THEN loop_pc' = "while" /\ UNCHANGED ticks_left
       ELSE loop_pc' = "tick" /\ ticks_left' = interval_seconds
    /\ UNCHANGED <<loop_script, interval_seconds, shutdown_requested, run_count,
                   total_stats, final_printed, sig_pc, sig_runs, sig_sleeps>>
    /\ LoopFrame

\* mutant: the wait does not look at the flag
TickCheck_NoBreak ==
    /\ loop_pc = "tick"
    /\ loop_pc' = IF ticks_left = 0 THEN "afterwait" ELSE "sleeping"
    /\ UNCHANGED <<loop_script, interval_seconds, shutdown_requested, run_count,
                   total_stats, ticks_left, final_printed, sig_pc, sig_runs,
                   sig_sleeps>>
    /\ LoopFrame

\* the head of one iteration of the wait: if shutdown_requested: break
TickCheck ==
    /\ loop_pc = "tick"
    /\ loop_pc' = IF ticks_left = 0 \/ shutdown_requested
                  THEN "afterwait" ELSE "sleeping"
    /\ UNCHANGED <<loop_script, interval_seconds, shutdown_requested, run_count,
                   total_stats, ticks_left, final_printed, sig_pc, sig_runs,
                   sig_sleeps>>
    /\ LoopFrame

\* time.sleep(1) returns
SleepTick ==
    /\ loop_pc = "sleeping"
    /\ ticks_left' = ticks_left - 1
    /\ sig_sleeps' = IF shutdown_requested THEN sig_sleeps + 1 ELSE sig_sleeps
    /\ loop_pc' = "tick"
    /\ UNCHANGED <<loop_script, interval_seconds, shutdown_requested, run_count,
                   total_stats, final_printed, sig_pc, sig_runs>>
    /\ LoopFrame

\* print() after the wait, back to the while test
AfterWait ==
    /\ loop_pc = "afterwait"
    /\ loop_pc' = "while"
    /\ UNCHANGED <<loop_script, interval_seconds, shutdown_requested, run_count,
                   total_stats, ticks_left, final_printed, sig_pc, sig_runs,
                   sig_sleeps>>
    /\ LoopFrame

\* "Demo stopped gracefully", FINAL STATISTICS, return
PrintFinal ==
    /\ loop_pc = "final"
    /\ final_printed' = FinalStatistics(loop_script, total_stats)
    /\ loop_pc' = "exited"
    /\ UNCHANGED <<loop_script, interval_seconds, shutdown_requested, run_count,
                   total_stats, ticks_left, sig_pc, sig_runs, sig_sleeps>>
    /\ LoopFrame

\* the steps of the main thread
LoopStep ==
    \/ LoopTest
    \/ \E res \in RunResults : RunDemo(res)
    \/ EnterWait
    \/ TickCheck
    \/ SleepTick
    \/ AfterWait
    \/ PrintFinal

NextLoop == Signal \/ LoopStep

SpecLoop == InitLoop /\ [][NextLoop]_vars

\* the main thread is scheduled, and a sleep returns
SpecLoopFair == SpecLoop /\ WF_vars(LoopStep)

(***************************************************************************)
(* Claims about loop mode (SpecLoopFair).                                  *)
(***************************************************************************)

\* the flag was set during the inter-run wait
SignalledInWait == sig_pc \in {"tick", "sleeping", "afterwait"}

\* C17: in loop mode, when the interrupt sets the shutdown flag during the
\* inter-run wait, no further demo run is started and at most one more
\* one-second sleep ends before the wait is left; the final statistics are
\* then printed and the loop terminates.
C17_ShutdownDuringWait ==
    /\ [](SignalledInWait => run_count = sig_runs /\ sig_sleeps <= 1)
    /\ (SignalledInWait ~> (loop_pc = "exited" /\ final_printed # NotPrinted))

\* the flag was set while the second run's wait was asleep; that sleep ended
\* and the loop terminated after two runs
C17_Witness ==
    /\ loop_pc = "exited"
    /\ sig_pc = "sleeping"
    /\ sig_sleeps = 1
    /\ run_count = 2
    /\ final_printed.total_runs = 2


(***************************************************************************)
(* SpecStats: one statistics or report computation applied to drawn        *)
(* inputs: the analysis of a results list, the model distribution of       *)
(* demo_load_balancing.py, the region table of a snapshot, the final       *)
(* statistics of loop mode.  stat_out is the set of rates, means and       *)
(* percentages the computation produced.                                   *)
(***************************************************************************)
StatKinds == Scripts \cup {"region_table", "final_loadbalance", "final_quota"}

\* the records a results list is drawn from: of either account for the
\* sharding script
StatRecords(kind) ==
    LET accts == IF kind = "sharding" THEN Accounts ELSE {"absent"}
    IN {OkRecord(0, a) : a \in accts} \cup {FailedRecord(0, a) : a \in accts}

\* the snapshots a region table is drawn from; a region may count 0
StatSnapshots ==
    {QueryNone, QueryEmpty}
    \cup {Snapshot(dist, dist["us-east-1"], "absent") :
            dist \in [{"us-east-1"} -> 0..MaxSucc]}
    \cup {Snapshot(dist, dist["us-east-1"] + dist["us-west-2"], "ACCOUNT1") :
            dist \in [Regions -> 0..MaxSucc]}

\* the totals a loop may hold when it stops
StatTotals ==
    {ts \in [total_successful : 0..MaxRunCalls, total_failed : 0..MaxRunCalls,
             total_runs : 0..MaxRuns, effective_isolation_runs : 0..MaxRuns,
             consumer_cumulative_stats : {NoConsumerTotals}] :
        ts.effective_isolation_runs <= ts.total_runs}

\* the rates and means of a report that were computed
ReportValues(rep) ==
    {rep.success_rate, rep.avg_response_time, rep.primary_success_rate,
     rep.primary_avg_time, rep.secondary_success_rate, rep.secondary_avg_time,
     rep.total_avg_time}

\* demo_load_balancing.py: the percentage of each model that answered
ModelDistribution(rs) ==
    LET successful_requests == Count(rs, IsSuccess)
        models == {rs[k].model_used : k \in {j \in DOMAIN rs : rs[j].success}}
        CountOf(m) == Cardinality({k \in DOMAIN rs : rs[k].success /\ rs[k].model_used = m})
    IN {IF successful_requests > 0
        THEN Div(CountOf(m) * 100, successful_requests) ELSE Zero : m \in models}

\* the Percentage column of the region table of one snapshot
RegionTable(res) ==
    IF HasDistribution(res)
    THEN {IF res.total_invocations > 0
          THEN Div(res.region_distribution[r] * 100, res.total_invocations)
          ELSE Zero : r \in DOMAIN res.region_distribution}
    ELSE {}

InitStats ==
    /\ IdleSend
    /\ IdleBatch
    /\ IdlePoll
    /\ IdleNotStat
    /\ stat_kind \in StatKinds
    /\ stat_results \in IF stat_kind \in Scripts
                        THEN SeqsUpTo(StatRecords(stat_kind), MaxN) ELSE {<<>>}
    /\ stat_snapshot \in IF stat_kind = "region_table" THEN StatSnapshots ELSE {QueryNone}
    /\ stat_totals \in IF stat_kind \in {"final_loadbalance", "final_quota"}
                       THEN StatTotals ELSE {NoTotals}
    /\ stat_out = {}
    /\ stat_pc = "start"

StatDone(out) ==
    /\ stat_pc = "start"
    /\ stat_out' = out
    /\ stat_pc' = "done"
    /\ UNCHANGED <<stat_kind, stat_results, stat_totals, stat_snapshot>>
    /\ UNCHANGED <<sendVars, batchVars, pollVars, notStatVars>>

\* the statistics block of the script's analysis
ComputeAnalysis ==
    /\ stat_kind \in Scripts \ {"loadbalance"}
    /\ StatDone(ReportValues(Analysis(stat_kind, stat_results)))

\* LOAD BALANCING RESULTS
ComputeDistribution ==
    /\ stat_kind = "loadbalance"
    /\ StatDone(ReportValues(Analysis(stat_kind, stat_results))
                  \cup ModelDistribution(stat_results))

\* the region table of the CloudWatch section
ComputeRegionTable ==
    /\ stat_kind = "region_table"
    /\ StatDone(RegionTable(stat_snapshot))

\* FINAL STATISTICS of loop mode
ComputeFinal ==
    /\ stat_kind \in {"final_loadbalance", "final_quota"}
    /\ StatDone({FinalStatistics(IF stat_kind = "final_loadbalance"
                                 THEN "loadbalance" ELSE "quota", stat_totals).rate})

NextStats ==
    \/ ComputeAnalysis
    \/ ComputeDistribution
    \/ ComputeRegionTable
    \/ ComputeFinal

SpecStats == InitStats /\ [][NextStats]_vars

(***************************************************************************)
(* Claims about the statistics (SpecStats).                                *)
(***************************************************************************)

\* C19: no statistics or report computation divides by zero, whatever the
\* outcomes: without a successful call, with an account that got no
\* request, with a snapshot whose total is zero, with no request at all and
\* with no completed run in loop mode the value is 0 or "N/A".
C19_NoDivisionByZero ==
    stat_pc = "done" =>
        /\ ZeroDivisionError \notin stat_out
        /\ \A v \in stat_out : v \in {NotShown, NotAvailable} \/ v[2] > 0

\* the sharding analysis of two failed calls, both of ACCOUNT1: no success,
\* and nothing for ACCOUNT2
C19_Witness ==
    /\ stat_pc = "done"
    /\ stat_kind = "sharding"
    /\ Len(stat_results) = 2
    /\ \A k \in DOMAIN stat_results :
          ~stat_results[k].success /\ stat_results[k].account_type = "ACCOUNT1"
    /\ stat_out = {Zero, NotShown}

\* the final statistics of a loop stopped before its first run
C19_WitnessNoRun ==
    /\ stat_pc = "done"
    /\ stat_kind = "final_loadbalance"
    /\ stat_totals = NoTotals
    /\ stat_out = {NotAvailable}

\* the region table of a snapshot whose total is zero
C19_WitnessZeroTotal ==
    /\ stat_pc = "done"
    /\ stat_kind = "region_table"
    /\ HasDistribution(stat_snapshot)
    /\ stat_snapshot.total_invocations = 0
    /\ stat_out = {Zero}


(***************************************************************************)
(* SpecConfig: one value of config.yaml from the document to its use.      *)
(* The document is parsed when the module is loaded; the section holding   *)
(* the value is a mapping, is missing, or is null (a key without           *)
(* children); the value is missing, valid, blank, of the wrong type, or a  *)
(* text or number the format or range test rejects.  cfg_result is the     *)
(* value the script goes on with: "default", or the configured value by    *)
(* its kind, or "AttributeError" when the lookup raised and nothing caught *)
(* it.                                                                     *)
(***************************************************************************)
PortScripts == {"fallback", "loadbalance", "quota"}

ConfigKeys(scr) ==
    IF scr = "cris"
    THEN {"profile_name", "region_name", "bedrock_log_group_name", "model_id"}
    ELSE IF scr = "sharding"
    THEN {"profile_name", "secondary_profile_name", "region_name",
          "bedrock_log_group_name", "model_id"}
    ELSE {"port"}

SectionKinds == {"mapping", "missing", "null"}

\* a format or range test exists for the region, the log group and the port
ValueKinds(key) ==
    IF key \in {"region_name", "bedrock_log_group_name"}
    THEN {"missing", "valid", "blank", "wrong_type", "bad_format"}
    ELSE IF key = "port" THEN {"missing", "valid", "wrong_type", "bad_format"}
    ELSE {"missing", "valid", "blank", "wrong_type"}

\* config.get(section, {}).get(key, default)
Lookup(section, value) ==
    IF section = "null" THEN "AttributeError"
    ELSE IF section = "missing" \/ value = "missing" THEN "default"
    ELSE value

\* the getters with a try / except and a validation: those of
\* demo_cris.py for the aws section, and the port of demo_fallback.py
Validates(scr, key) ==
    \/ scr = "cris" /\ key # "model_id"
    \/ scr = "fallback" /\ key = "port"

\* the value the script uses
GetConfig(scr, key, section, value) ==
    LET found == Lookup(section, value)
    IN IF Validates(scr, key)
       THEN IF found \in {"AttributeError", "blank", "wrong_type", "bad_format"}
            THEN "default" ELSE found
       ELSE found

InitConfig ==
    /\ IdleSend
    /\ IdleBatch
    /\ IdlePoll
    /\ IdleNotConfig
    /\ cfg_script \in Scripts
    /\ cfg_key \in ConfigKeys(cfg_script)
    /\ cfg_section \in SectionKinds
    /\ cfg_value \in ValueKinds(cfg_key)
    /\ cfg_pc = "start"
    /\ cfg_loads = 0
    /\ cfg_result = "none"

ConfigFrame == UNCHANGED <<sendVars, batchVars, pollVars, notConfigVars>>

\* with open('./config/config.yaml') as f: config = yaml.safe_load(f); the
\* proxy scripts read the port in the same step
LoadConfig ==
    /\ cfg_pc = "start"
    /\ cfg_loads' = cfg_loads + 1
    /\ IF cfg_script \in PortScripts
       THEN /\ cfg_result' = GetConfig(cfg_script, cfg_key, cfg_section, cfg_value)
            /\ cfg_pc' = IF cfg_result' = "AttributeError" THEN "aborted" ELSE "read"
       ELSE /\ cfg_result' = "none"
            /\ cfg_pc' = "loaded"
    /\ UNCHANGED <<cfg_script, cfg_key, cfg_section, cfg_value>>
    /\ ConfigFrame

\* get_aws_profile(), get_aws_region(), ... where the run needs the value
GetValue ==
    /\ cfg_pc = "loaded"
    /\ cfg_result' = GetConfig(cfg_script, cfg_key, cfg_section, cfg_value)
    /\ cfg_pc' = IF cfg_result' = "AttributeError" THEN "aborted" ELSE "read"
    /\ UNCHANGED <<cfg_script, cfg_key, cfg_section, cfg_value, cfg_loads>>
    /\ ConfigFrame

\* the demo goes on with the value
Proceed ==
    /\ cfg_pc = "read"
    /\ cfg_pc' = "proceeded"
    /\ UNCHANGED <<cfg_script, cfg_key, cfg_section, cfg_value, cfg_loads, cfg_result>>
    /\ ConfigFrame

NextConfig == LoadConfig \/ GetValue \/ Proceed

SpecConfig == InitConfig /\ [][NextConfig]_vars

(***************************************************************************)
(* Claims about the configuration (SpecConfig).                            *)
(***************************************************************************)

\* the value is missing or malformed
NeedsDefault == cfg_section # "mapping" \/ cfg_value # "valid"

\* C20: the configuration is read once, and a missing or malformed value
\* (profile name, region, log group name, model id, proxy port) never aborts
\* a script: the default of the value is used and the demo proceeds.
C20_DefaultsNeverAbort ==
    /\ cfg_loads <= 1
    /\ cfg_pc # "aborted"
    /\ (cfg_pc = "proceeded" /\ NeedsDefault => cfg_result = "default")

\* what holds: the document is read once; a value that is missing from a
\* section that is a mapping or is missing itself gets its default in every
\* script; so does every missing or malformed value of a validating getter
C20_ValidatingGettersDefault ==
    /\ cfg_loads <= 1
    /\ (NeedsDefault /\ (Validates(cfg_script, cfg_key)
                          \/ (cfg_section # "null"
                                /\ (cfg_section = "missing" \/ cfg_value = "missing")))
          => /\ cfg_pc # "aborted"
             /\ cfg_pc = "proceeded" => cfg_result = "default")

\* demo_cris.py went on with the default region after a region of a bad format
C20_WitnessValidated ==
    /\ cfg_pc = "proceeded"
    /\ cfg_script = "cris"
    /\ cfg_key = "region_name"
    /\ cfg_value = "bad_format"
    /\ cfg_result = "default"

\* demo_account_sharding.py stopped on an aws section that is null
C20_WitnessAborted ==
    /\ cfg_pc = "aborted"
    /\ cfg_script = "sharding"
    /\ cfg_section = "null"


(***************************************************************************)
(* SpecParse: get_cloudwatch_results applied to one response, of up to     *)
(* MaxParseRows rows: rows of one field, rows whose count is not a number, *)
(* rows that name the same region.                                         *)
(***************************************************************************)
ParseResponses ==
    {[raises |-> TRUE, results |-> <<>>]}
    \cup {[raises |-> FALSE, results |-> rows] : rows \in SeqsUpTo(Rows, MaxParseRows)}

RECURSIVE SumOfDist(_)
\* sum(region_distribution.values())
SumOfDist(dist) ==
    IF DOMAIN dist = {} THEN 0
    ELSE LET r == CHOOSE x \in DOMAIN dist : TRUE
         IN dist[r] + SumOfDist([x \in (DOMAIN dist) \ {r} |-> dist[x]])

InitParse ==
    /\ IdleSend
    /\ IdleBatch
    /\ IdlePoll
    /\ IdleNotParse
    /\ parse_response \in ParseResponses
    /\ parse_account \in {"absent"} \cup Accounts
    /\ parse_out = QueryNone
    /\ parse_pc = "start"

\* return get_cloudwatch_results(logs_client, query_id[, account_type])
ParseResults ==
    /\ parse_pc = "start"
    /\ parse_out' = get_cloudwatch_results(parse_response, parse_account)
    /\ parse_pc' = "done"
    /\ UNCHANGED <<parse_response, parse_account>>
    /\ UNCHANGED <<sendVars, batchVars, pollVars, notParseVars>>

NextParse == ParseResults

SpecParse == InitParse /\ [][NextParse]_vars

(***************************************************************************)
(* Claims about the parser (SpecParse).                                    *)
(***************************************************************************)

\* two rows of the response that are parsed name the same region
RepeatsRegion ==
    \E j, k \in DOMAIN parse_response.results :
        /\ j < k
        /\ Len(parse_response.results[j]) >= 2
        /\ Len(parse_response.results[k]) >= 2
        /\ parse_response.results[j][1] = parse_response.results[k][1]

\* C21: every snapshot the parser produces is consistent: whatever the rows
\* (short rows, rows repeating a region), its total_invocations is the sum
\* of the counts of its region_distribution.
C21_TotalIsSumOfDistribution ==
    parse_pc = "done" /\ Truthy(parse_out) =>
        parse_out.total_invocations = SumOfDist(parse_out.region_distribution)

\* what holds: the total is the sum of the distribution when no two parsed
\* rows name the same region, and is never less than that sum
C21_ConsistentWithoutRepeats ==
    parse_pc = "done" /\ Truthy(parse_out) =>
        /\ parse_out.total_invocations >= SumOfDist(parse_out.region_distribution)
        /\ (~RepeatsRegion =>
              parse_out.total_invocations = SumOfDist(parse_out.region_distribution))

\* a response of a short row and a row of us-west-2 was parsed
C21_WitnessShortRow ==
    /\ parse_pc = "done"
    /\ Len(parse_response.results) = 2
    /\ Len(parse_response.results[1]) = 1
    /\ parse_out.total_invocations = 2
    /\ DOMAIN parse_out.region_distribution = {"us-west-2"}


(***************************************************************************)
(* SpecWait: wait_for_query_completion, one poll at a time.  wait_elapsed  *)
(* is time.time() - start_time in seconds: a describe_queries call takes   *)
(* up to MaxCallLatency seconds, a sleep takes StatusPollSleep.            *)
(***************************************************************************)
\* the statuses that end the loop with False
EndsWait == {"NotFound", "Exception", "Failed", "Cancelled"}

InitWait ==
    /\ IdleSend
    /\ IdleBatch
    /\ IdlePoll
    /\ IdleNotWait
    /\ wait_pc = "test"
    /\ wait_elapsed = 0
    /\ wait_polls = 0
    /\ wait_status = "none"
    /\ wait_result = "none"

WaitFrame == UNCHANGED <<sendVars, batchVars, pollVars, notWaitVars>>

\* while time.time() - start_time < timeout_seconds, else "timed out"
WaitTest ==
    /\ wait_pc = "test"
    /\ IF wait_elapsed < QueryTimeout
       THEN wait_pc' = "poll" /\ UNCHANGED wait_result
       ELSE wait_pc' = "returned" /\ wait_result' = "False"
    /\ UNCHANGED <<wait_elapsed, wait_polls, wait_status>>
    /\ WaitFrame

\* mutant: a status that is not a failure counts as completion
WaitPoll_AnyOtherCompletes(status, latency) ==
    /\ wait_pc = "poll"
    /\ wait_polls' = wait_polls + 1
    /\ wait_elapsed' = wait_elapsed + latency
    /\ wait_status' = status
    /\ IF status \in {"Complete", "Scheduled"}
       THEN wait_pc' = "returned" /\ wait_result' = "True"
       ELSE IF status \in EndsWait
       THEN wait_pc' = "returned" /\ wait_result' = "False"
       ELSE wait_pc' = "sleep" /\ UNCHANGED wait_result
    /\ WaitFrame

\* describe_queries and the tests on the status of our query
WaitPoll(status, latency) ==
    /\ wait_pc = "poll"
    /\ wait_polls' = wait_polls + 1
    /\ wait_elapsed' = wait_elapsed + latency
    /\ wait_status' = status
    /\ IF status = "Complete"
       THEN wait_pc' = "returned" /\ wait_result' = "True"
       ELSE IF status \in EndsWait
       THEN wait_pc' = "returned" /\ wait_result' = "False"
       ELSE wait_pc' = "sleep" /\ UNCHANGED wait_result
    /\ WaitFrame

\* time.sleep(2)
WaitSleep ==
    /\ wait_pc = "sleep"
    /\ wait_elapsed' = wait_elapsed + StatusPollSleep
    /\ wait_pc' = "test"
    /\ UNCHANGED <<wait_polls, wait_status, wait_result>>
    /\ WaitFrame

NextWait ==
    \/ WaitTest
    \/ \E status \in Thens : \E latency \in 0..MaxCallLatency : WaitPoll(status, latency)
    \/ WaitSleep

SpecWait == InitWait /\ [][NextWait]_vars

\* the thread is scheduled, and calls and sleeps return
SpecWaitFair == SpecWait /\ WF_vars(NextWait)

(***************************************************************************)
(* Claims about the wait loop (SpecWaitFair).                              *)
(***************************************************************************)

\* the loop has not returned on a status: the last status seen, if any, is
\* Running or another status that is neither Complete nor an end
StillRunning == wait_status \notin EndsWait \cup {"Complete"}

WaitBounded ==
    /\ wait_polls * StatusPollSleep <= QueryTimeout
    /\ (wait_result = "True" => wait_status = "Complete")
    /\ (wait_pc = "sleep" => StillRunning)
    /\ (wait_pc = "returned" /\ StillRunning =>
          wait_result = "False" /\ wait_elapsed >= QueryTimeout)
    /\ (wait_pc # "returned" => wait_result = "none")

\* C22: the wait loop of one query is bounded: while the status seen is
\* Running, or any status other than Complete, Failed and Cancelled, it
\* polls again after a 2-second sleep, and returns failure once 60 seconds
\* have elapsed; it returns success only on a poll that saw Complete; it
\* always returns.
C22_WaitLoopBounded == []WaitBounded /\ <>(wait_pc = "returned")

\* thirty polls saw a running query and the loop returned failure
C22_Witness ==
    /\ wait_pc = "returned"
    /\ wait_result = "False"
    /\ wait_status = "Running"
    /\ wait_polls * StatusPollSleep = QueryTimeout
    /\ wait_elapsed = QueryTimeout


(***************************************************************************)
(* Claims about the waits of the poller (SpecQuery).                       *)
(***************************************************************************)

\* the waits made when attempt a is queried: 60 seconds, then 30 for each
\* later attempt
WaitedBefore(a) == FirstWait + a * LaterWait

\* a query is entered in this step
EntersQuery == q_pc = "idle" /\ q_pc' = "creds"

FixedWaits ==
    [][/\ (slept' # slept =>
             slept' - slept = (IF attempt = 0 THEN FirstWait ELSE LaterWait))
       /\ (EntersQuery => slept = WaitedBefore(attempt))]_vars

\* C23 as stated: every attempt is preceded by a wait fixed by its index, 60
\* seconds before the first query and 30 before each later one, no query is
\* made without that wait, and the poller sleeps at most 60 + 4*30 = 180
\* seconds in all; here its sleeps are the waits and the sleeps of the
\* status polls of the query under way.
C23_Original ==
    /\ FixedWaits
    /\ [](slept + q_elapsed <= FirstWait + (MaxAttempts - 1) * LaterWait)

\* C23 (amended): every attempt is preceded by a wait fixed by its index, 60
\* seconds before the first query and 30 before each later one, no query is
\* made without that wait, and these waits sum to at most 180 seconds; the
\* 2-second sleeps between the status polls of a query come on top of them.
C23_FixedWaitBeforeEveryAttempt ==
    /\ FixedWaits
    /\ [](slept <= FirstWait + (MaxAttempts - 1) * LaterWait)
    /\ [](poll_pc \in {"query", "check"} => slept = WaitedBefore(attempt))

\* the fifth attempt was made after 180 seconds of waits and its query
\* slept on through its own timeout
C23_Witness ==
    /\ poll_pc = "check"
    /\ attempt = MaxAttempts - 1
    /\ slept = 180
    /\ q_cause = "timeout"
    /\ q_elapsed >= QueryTimeout


(***************************************************************************)
(* SpecTally: the worker threads of demo_fallback.py and                   *)
(* demo_load_balancing.py and the data they share.  counter[m] += 1 is a   *)
(* read of the counter followed by a write, and a thread can be preempted  *)
(* between any two steps.  t_out is how a worker's request ended:          *)
(* answered by the primary model, by the fallback model, or failed.        *)
(***************************************************************************)
TallyScripts == {"fallback", "loadbalance"}

TallyWorkers == 1..tally_n

TallyOutcomes == {"primary", "fallback", "fail"}

NoTallyReport == [successful |-> 0 - 1, fallback_count |-> 0, primary_count |-> 0]

InitTally ==
    /\ IdleSend
    /\ IdleBatch
    /\ IdlePoll
    /\ IdleNotTally
    /\ tally_script \in TallyScripts
    /\ tally_n \in 1..MaxTallyWorkers
    /\ t_pc = [i \in TallyWorkers |-> "new"]
    /\ t_out = [i \in TallyWorkers |-> "none"]
    /\ t_tmp = [i \in TallyWorkers |-> 0]
    /\ t_lock = 0
    /\ t_counts = [m \in {"primary", "fallback"} |-> 0]
    /\ t_results = <<>>
    /\ t_events = 0
    /\ t_report = NoTallyReport

TallyFrame == UNCHANGED <<sendVars, batchVars, pollVars, notTallyVars>>

\* the request of worker i ends: a response of some model, or an exception
TallyCall(i, o) ==
    /\ t_pc[i] = "new"
    /\ t_out' = [t_out EXCEPT ![i] = o]
    /\ t_pc' = [t_pc EXCEPT ![i] = "called"]
    /\ UNCHANGED <<tally_script, tally_n, t_tmp, t_lock, t_counts, t_results,
                   t_events, t_report>>
    /\ TallyFrame

\* mutant: the block is entered without the lock being free
TallyAcquire_NoLock(i) ==
    /\ t_pc[i] = "called"
    /\ t_lock' = i
    /\ t_pc' = [t_pc EXCEPT ![i] = "locked"]
    /\ UNCHANGED <<tally_script, tally_n, t_out, t_tmp, t_counts, t_results,
                   t_events, t_report>>
    /\ TallyFrame

\* with results_lock:
TallyAcquire(i) ==
    /\ t_pc[i] = "called"
    /\ t_lock = 0
    /\ t_lock' = i
    /\ t_pc' = [t_pc EXCEPT ![i] = "locked"]
    /\ UNCHANGED <<tally_script, tally_n, t_out, t_tmp, t_counts, t_results,
                   t_events, t_report>>
    /\ TallyFrame

\* counter[model] += 1, first half: the counter is read.  demo_fallback.py
\* counts before it appends, demo_load_balancing.py after
TallyRead(i) ==
    /\ t_out[i] # "fail"
    /\ t_pc[i] = IF tally_script = "fallback" THEN "locked" ELSE "appended"
    /\ t_tmp' = [t_tmp EXCEPT ![i] = t_counts[t_out[i]]]
    /\ t_pc' = [t_pc EXCEPT ![i] = "read"]
    /\ UNCHANGED <<tally_script, tally_n, t_out, t_lock, t_counts, t_results,
                   t_events, t_report>>
    /\ TallyFrame

\* counter[model] += 1, second half: the sum is stored
TallyWrite(i) ==
    /\ t_pc[i] = "read"
    /\ t_counts' = [t_counts EXCEPT ![t_out[i]] = t_tmp[i] + 1]
    /\ t_pc' = [t_pc EXCEPT ![i] = "counted"]
    /\ UNCHANGED <<tally_script, tally_n, t_out, t_tmp, t_lock, t_results,
                   t_events, t_report>>
    /\ TallyFrame

\* results.append({...})
TallyAppend(i) ==
    /\ t_pc[i] = IF tally_script = "fallback" /\ t_out[i] # "fail"
                 THEN "counted" ELSE "locked"
    /\ t_results' = Append(t_results, [request_id |-> i, success |-> t_out[i] # "fail"])
    /\ t_pc' = [t_pc EXCEPT ![i] = "appended"]
    /\ UNCHANGED <<tally_script, tally_n, t_out, t_tmp, t_lock, t_counts,
                   t_events, t_report>>
    /\ TallyFrame

\* demo_fallback.py: if is_fallback: fallback_events.append({...})
TallyEvent(i) ==
    /\ tally_script = "fallback"
    /\ t_out[i] = "fallback"
    /\ t_pc[i] = "appended"
    /\ t_events' = t_events + 1
    /\ t_pc' = [t_pc EXCEPT ![i] = "evented"]
    /\ UNCHANGED <<tally_script, tally_n, t_out, t_tmp, t_lock, t_counts,
                   t_results, t_report>>
    /\ TallyFrame

\* worker i is at the end of its with block
AtBlockEnd(i) ==
    IF t_out[i] = "fail" THEN t_pc[i] = "appended"
    ELSE IF tally_script = "loadbalance" THEN t_pc[i] = "counted"
    ELSE IF t_out[i] = "fallback" THEN t_pc[i] = "evented"
    ELSE t_pc[i] = "appended"

\* the with block is left: the lock is released
TallyRelease(i) ==
    /\ AtBlockEnd(i)
    /\ t_lock' = 0
    /\ t_pc' = [t_pc EXCEPT ![i] = "done"]
    /\ UNCHANGED <<tally_script, tally_n, t_out, t_tmp, t_counts, t_results,
                   t_events, t_report>>
    /\ TallyFrame

\* after the joins: successful_requests, fallback_count, primary_count
TallyReport ==
    /\ t_report = NoTallyReport
    /\ \A i \in TallyWorkers : t_pc[i] = "done"
    /\ LET successful_requests == Len(SelectSeq(t_results, IsSuccess))
       IN t_report' = [successful |-> successful_requests,
                       fallback_count |-> t_events,
                       primary_count |-> successful_requests - t_events]
    /\ UNCHANGED <<tally_script, tally_n, t_pc, t_out, t_tmp, t_lock, t_counts,
                   t_results, t_events>>
    /\ TallyFrame

NextTally ==
    \/ \E i \in TallyWorkers : \E o \in TallyOutcomes : TallyCall(i, o)
    \/ \E i \in TallyWorkers : TallyAcquire(i)
    \/ \E i \in TallyWorkers : TallyRead(i)
    \/ \E i \in TallyWorkers : TallyWrite(i)
    \/ \E i \in TallyWorkers : TallyAppend(i)
    \/ \E i \in TallyWorkers : TallyEvent(i)
    \/ \E i \in TallyWorkers : TallyRelease(i)
    \/ TallyReport

SpecTally == InitTally /\ [][NextTally]_vars

(***************************************************************************)
(* Claims about the shared tallies (SpecTally).                            *)
(***************************************************************************)

\* the workers inside the with block
InBlock == {i \in TallyWorkers : t_pc[i] \notin {"new", "called", "done"}}

\* C24: no update of the shared tallies is lost: every append and every
\* counter increment is made by the one worker that holds the results
\* lock, so after the joins there is one record per request, the per-model
\* counts sum to the number of successful records, and in the fallback demo
\* primary_count = successful - fallback_count is not negative.
C24_NoLostUpdate ==
    /\ Cardinality(InBlock) <= 1
    /\ \A i \in InBlock : t_lock = i
    /\ (t_report # NoTallyReport =>
          /\ Len(t_results) = tally_n
          /\ t_counts["primary"] + t_counts["fallback"] = t_report.successful
          /\ t_report.successful =
                Cardinality({i \in TallyWorkers : t_out[i] # "fail"})
          /\ (tally_script = "fallback" =>
                /\ t_report.fallback_count = t_counts["fallback"]
                /\ t_report.primary_count = t_counts["primary"]
                /\ t_report.primary_count >= 0))

\* three workers of the fallback demo, two answered by the fallback model
\* and one by the primary, were tallied
C24_Witness ==
    /\ t_report # NoTallyReport
    /\ tally_script = "fallback"
    /\ tally_n = 3
    /\ t_counts["fallback"] = 2
    /\ t_counts["primary"] = 1


(***************************************************************************)
(* Claims about the sharding report (SpecBatch).                           *)
(***************************************************************************)

\* the successful calls that went to account a
SucceededAt(a) == {i \in Workers : Succeeded(i) /\ SentTo(i) = a}

\* C25: the average on the TOTAL row of the sharding table is the mean
\* latency over all successful calls of both accounts.
C25_TotalRowIsOverallMean ==
    main_pc = "done" /\ script = "sharding" =>
        report.total_avg_time = ExpectedMean({i \in Workers : Succeeded(i)})

\* what the TOTAL row shows: half the sum of the two per-account means,
\* which is the overall mean when both accounts have as many successes
C25_TotalRowIsMeanOfMeans ==
    main_pc = "done" /\ script = "sharding" =>
        LET P == SucceededAt("ACCOUNT1")
            S == SucceededAt("ACCOUNT2")
        IN /\ report.total_avg_time =
                 FracHalf(FracAdd(ExpectedMean(P), ExpectedMean(S)))
           /\ (Cardinality(P) = Cardinality(S) =>
                 report.total_avg_time = ExpectedMean(P \cup S))

\* a sharding report where the accounts differ in successes: the only
\* success took 1.00 s and the TOTAL row shows 0.50 s
C25_WitnessHalved ==
    /\ main_pc = "done" /\ script = "sharding"
    /\ Cardinality({i \in Workers : Succeeded(i)}) = 1
    /\ \A i \in Workers : Succeeded(i) => outcome[i].latency = 100
    /\ report.total_avg_time = <<50, 1>>


\* the requests of the batch that were sent with the profile of account a
RequestsTo(a) == {i \in Workers : SentTo(i) = a}

\* C26: the sharding demo sends num_requests // 2 requests to each
\* account, for every batch size and every strategy.
C26_HalfToEachAccount ==
    main_pc = "done" /\ script = "sharding" =>
        \A a \in Accounts : Cardinality(RequestsTo(a)) = num_requests \div 2

\* what is sent: every request goes to one of the two accounts; split gives
\* ACCOUNT1 the first N div 2, round-robin gives ACCOUNT1 the even indices,
\* so each account has N div 2 when N is even and the choice is not random
C26_SplitOfTheBatch ==
    main_pc = "done" /\ script = "sharding" =>
        LET n1 == Cardinality(RequestsTo("ACCOUNT1"))
            n2 == Cardinality(RequestsTo("ACCOUNT2"))
            half == num_requests \div 2
        IN /\ n1 + n2 = num_requests
           /\ (distribution_strategy = "split" => n1 = half)
           /\ (distribution_strategy = "round-robin" => n2 = half)
           /\ (distribution_strategy # "random" /\ num_requests = 2 * half =>
                 n1 = half /\ n2 = half)

\* a split batch of three: one request to ACCOUNT1 and two to ACCOUNT2
C26_WitnessOdd ==
    /\ main_pc = "done" /\ script = "sharding"
    /\ distribution_strategy = "split" /\ num_requests = 3
    /\ Cardinality(RequestsTo("ACCOUNT1")) = 1
    /\ Cardinality(RequestsTo("ACCOUNT2")) = 2


(***************************************************************************)
(* Claims about what the poller expects (SpecQuery).                       *)
(***************************************************************************)

\* partition l was queried, or a query of it is under way
Queried(l) == queries[l] > 0 \/ (q_pc # "idle" /\ q_label = l)

\* the snapshot held for partition l shows more invocations than expected
OverCount(l) == HoldsSnapshot(l) /\ TotalOf(Held(l)) > Expected(l)

\* the poller has left its attempt loop
LeftLoop == poll_pc \in {"report", "done", "returned"}

\* C27: the poller expects the number of successful calls of the
\* partition, not the number dispatched: with no success in the batch no
\* query is issued, an account is queried only if it had a success, and a
\* snapshot showing more than the expected count is incomplete, so that
\* the loop is left with it only when the five attempts are used up.
C27_ExpectsSuccessfulCalls ==
    /\ GuardCount = stats.successful
    /\ (poll_script = "sharding" =>
          /\ primary_expected_count = stats.primary_successful
          /\ secondary_expected_count = stats.secondary_successful)
    /\ (stats.successful = 0 => \A l \in Labels : ~Queried(l) /\ slept = 0)
    /\ \A l \in Labels : Queried(l) => Expected(l) > 0
    /\ \A l \in Labels :
          LeftLoop /\ OverCount(l) => attempt = MaxAttempts - 1

\* the sharding poller gave up after five attempts holding an over-count
\* of ACCOUNT2, in a batch with a failed call where ACCOUNT1, without a
\* success, was never queried
C27_Witness ==
    /\ poll_script = "sharding"
    /\ poll_pc = "returned"
    /\ stats_failed = 1
    /\ primary_expected_count = 0
    /\ secondary_expected_count = 1
    /\ OverCount("ACCOUNT2")
    /\ queries["ACCOUNT2"] = MaxAttempts
    /\ queries["ACCOUNT1"] = 0

\* a batch whose calls all failed: the analysis returns without a query
C27_WitnessNoSuccess ==
    /\ poll_pc = "returned"
    /\ stats_failed = 1
    /\ stats.successful = 0
    /\ \A l \in Labels : queries[l] = 0


(***************************************************************************)
(* Claims about the cumulative statistics of the loop (SpecLoop).          *)
(***************************************************************************)

\* the requests the cumulative statistics count: of the batch, or of
\* consumer c
CountedRequests(c) ==
    IF loop_script = "loadbalance"
    THEN total_stats.total_successful + total_stats.total_failed
    ELSE total_stats.consumer_cumulative_stats[c].successful
           + total_stats.consumer_cumulative_stats[c].failed

\* the requests one run sends: the ten questions, or five per consumer
RequestsPerRun == IF loop_script = "loadbalance" THEN NumQuestions ELSE ConsumerRequests

\* the first signal arrived while a demo run was in progress
SignalledInRun == shutdown_requested /\ sig_pc = "run"

\* C28: a signal that arrives during a demo run does not cut the run
\* short: the run returns with all its requests settled, its counts are
\* added to the cumulative statistics, the wait between runs is skipped, no
\* further run is started, and the final statistics are printed.
C28_SignalDuringRun ==
    /\ [](SignalledInRun =>
            /\ run_count = sig_runs
            /\ sig_sleeps = 0
            /\ loop_pc \in {"run", "ifwait", "while", "final", "exited"}
            /\ (loop_pc # "run" =>
                  /\ total_stats.total_runs = sig_runs
                  /\ \A c \in ConsumerIds :
                        CountedRequests(c) = RequestsPerRun * sig_runs))
    /\ (SignalledInRun ~>
            (loop_pc = "exited" /\ final_printed.total_runs = sig_runs))

\* the second run of the load-balancing loop was signalled; its two failed
\* requests are in the totals the final statistics were printed from
C28_Witness ==
    /\ SignalledInRun
    /\ loop_script = "loadbalance"
    /\ loop_pc = "exited"
    /\ sig_runs = 2
    /\ final_printed.total_runs = 2
    /\ total_stats.total_failed = MaxRunFailed
    /\ total_stats.total_successful = 2 * NumQuestions - MaxRunFailed

\* C29: the cumulative statistics are consistent with the completed runs:
\* the load-balancing totals count ten requests per run, each consumer's
\* totals of the quota demo count five per run, and once a run has
\* returned total_runs is the number of runs started.
C29_CumulativeConsistent ==
    /\ \A c \in ConsumerIds :
          CountedRequests(c) = RequestsPerRun * total_stats.total_runs
    /\ (loop_pc # "run" => total_stats.total_runs = run_count)
    /\ (loop_pc = "run" => total_stats.total_runs = run_count - 1)
    /\ \A c \in ConsumerIds :
          total_stats.consumer_cumulative_stats[c].rate_limited
             <= total_stats.consumer_cumulative_stats[c].failed

\* two runs of the quota loop: consumer A failed in both, B in none
C29_Witness ==
    /\ loop_script = "quota"
    /\ total_stats.total_runs = 2
    /\ run_count = 2
    /\ total_stats.consumer_cumulative_stats["A"].failed = 2 * MaxRunFailed
    /\ total_stats.consumer_cumulative_stats["A"].successful
          = 2 * (ConsumerRequests - MaxRunFailed)
    /\ total_stats.consumer_cumulative_stats["B"].successful = 2 * ConsumerRequests


====
